---------------------------- MODULE Spec2Model ----------------------------
(***************************************************************************)
(* A model of the travel planner's aggregation engine: provider fan-out    *)
(* (FlightService / HotelService.search_all_providers), deduplication      *)
(* (TravelService._deduplicate_flights/_hotels), the combination search   *)
(* (BudgetOptimizationAgent._analyze_options) and plan assembly            *)
(* (TravelService.create_travel_plan).                                     *)
(*                                                                         *)
(* Money is kept in whole dollars (every price of the code's fixtures is   *)
(* integral), ratings in tenths of a star.                                 *)
(***************************************************************************)
EXTENDS Integers, Sequences, FiniteSets, TLC

VARIABLES
    \* ---- TravelService._deduplicate_flights / _deduplicate_hotels, called alone
    flights,            \* argument of _deduplicate_flights
    unique_flights,     \* its return value (<<>> before the call)
    hotels,             \* argument of _deduplicate_hotels
    unique_hotels,      \* its return value (<<>> before the call)
    returned,           \* the functions, called alone, that have returned
    \* ---- POST /plan: the endpoint around create_travel_plan
    request_data,       \* the body posted (None before the call)
    plan_details,       \* what the planner agent returned (None if nothing)
    store_plan,         \* the background task that stores the plan
    \* ---- TravelService.create_travel_plan and what it calls
    request,            \* the TravelPlanRequest (None before the call)
    pc,                 \* where create_travel_plan is
    exception,          \* the exception create_travel_plan ended with ("" for none)
    search,             \* where _search_flights and _search_hotels are
    agent_options,      \* what the flight and hotel agents returned to them
    tasks,              \* the provider calls handed to asyncio.gather
    amadeus,            \* AmadeusFlightClient: its request in flight, its token
    completed,          \* per category, the provider calls in completion order
    external,           \* what search_all_providers returned, per category
    flight_options,     \* result of _search_flights
    hotel_options,      \* result of _search_hotels
    budget_optimization,\* result of optimize_budget / _analyze_options
    travel_plan,        \* the TravelPlan returned (None if none)
    \* ---- create_travel_plan run twice on the same query and responses
    runs,               \* per run, the language model's results and the outcome
    \* ---- the endpoints of plans and bookings over the database
    travel_plans,       \* table travel_plans: plan id -> row
    bookings,           \* table bookings: booking id -> row
    issued,             \* the ids uuid4 has generated
    background,         \* the background tasks added and not yet run
    http_response,      \* the response to the last call
    reservations        \* the reservations the booking agents have made

dedup_vars == <<flights, unique_flights, hotels, unique_hotels>>
fanout_vars == <<search, agent_options, tasks, amadeus, completed, external>>
endpoint_vars == <<request_data, plan_details, store_plan>>
plan_vars == <<endpoint_vars, request, pc, exception, fanout_vars, flight_options, hotel_options,
               budget_optimization, travel_plan>>
service_vars == <<runs, travel_plans, bookings, issued, background, http_response,
                   reservations>>
vars == <<dedup_vars, returned, plan_vars, service_vars>>

\* A result that does not exist (yet): None.
None == [none |-> TRUE]

-----------------------------------------------------------------------------
(* Sequences and sorting *)

Min(a, b) == IF a <= b THEN a ELSE b

Range(s) == {s[i] : i \in DOMAIN s}

\* The list f as a tuple of its items, each computed once.
List(f) == f \o <<>>

\* s[:n]
Take(s, n) == SubSeq(s, 1, Min(n, Len(s)))

\* All sequences over S of length at most n.
SeqUpTo(S, n) == UNION {[1..k -> S] : k \in 0..n}

\* A list left as it is.
Unsorted(s, keys) == s

\* list.sort(key=...) / sorted(..., key=...): ascending by key, stable.
\* keys[i] is the key of s[i].
SortAscending(s, keys) ==
    LET sorted == SortSeq([i \in DOMAIN s |-> [at |-> i, key |-> keys[i], item |-> s[i]]],
                          LAMBDA a, b : a.key < b.key \/ (a.key = b.key /\ a.at < b.at))
    IN  List([r \in DOMAIN sorted |-> sorted[r].item])

\* An ascending sort read backwards: descending by key, but elements with
\* equal keys end in the reverse of their original order.
SortAscendingReversed(s, keys) ==
    LET sorted == SortAscending(s, keys)
    IN  List([r \in DOMAIN sorted |-> sorted[Len(sorted) + 1 - r]])

\* list.sort(key=..., reverse=True): descending by key; Python keeps the
\* original order of elements with equal keys here too.
SortDescending(s, keys) ==
    LET sorted == SortSeq([i \in DOMAIN s |-> [at |-> i, key |-> keys[i], item |-> s[i]]],
                          LAMBDA a, b : a.key > b.key \/ (a.key = b.key /\ a.at < b.at))
    IN  List([r \in DOMAIN sorted |-> sorted[r].item])

-----------------------------------------------------------------------------
(* str.lower() *)

LowerCase ==
    [ A |-> "a", B |-> "b", C |-> "c", D |-> "d", E |-> "e", F |-> "f",
      G |-> "g", H |-> "h", I |-> "i", J |-> "j", K |-> "k", L |-> "l",
      M |-> "m", N |-> "n", O |-> "o", P |-> "p", Q |-> "q", R |-> "r",
      S |-> "s", T |-> "t", U |-> "u", V |-> "v", W |-> "w", X |-> "x",
      Y |-> "y", Z |-> "z" ]

LowerChar(c) == IF c \in DOMAIN LowerCase THEN LowerCase[c] ELSE c

\* s.lower(), as the list of its characters.
lower(s) == List([i \in 1..Len(s) |-> LowerChar(SubSeq(s, i, i))])

-----------------------------------------------------------------------------
(* TravelService._deduplicate_flights / _deduplicate_hotels *)

\* A key that tells flights of different days apart.
FlightKeyWithDate(flight) ==
    <<flight.airline, flight.flight_number, flight.departure_time>>

\* key = (flight.airline, flight.flight_number)
FlightKey(flight) == <<flight.airline, flight.flight_number>>

\* key = (hotel.name.lower(), hotel.address.lower())
HotelKey(hotel) == <<lower(hotel.name), lower(hotel.address)>>

\* The items of a list of <<index, item>> pairs.
Unpair(ps) == List([i \in DOMAIN ps |-> ps[i][2]])

\* A deduplicator that lets a later duplicate replace the earlier one
\* (seen as a dict overwritten per key): item i stays iff no later item has
\* its key.
KeepLastSeen(s, keys) ==
    CHOOSE unique \in
        { Unpair(SelectSeq(List([i \in DOMAIN s |-> <<i, s[i]>>]),
                           LAMBDA p : \A j \in (p[1] + 1)..Len(key) : key[j] # key[p[1]])) :
            key \in {List(keys)} } : TRUE

\* A deduplicator that removes nothing.
KeepAll(s, keys) == s

\* A deduplicator that puts each new item in front (unique.insert(0, item)).
KeepFirstSeenNewestFirst(s, keys) ==
    CHOOSE unique \in
        { List([r \in DOMAIN kept |-> kept[Len(kept) + 1 - r][2]]) :
            kept \in { SelectSeq(List([i \in DOMAIN s |-> <<i, s[i]>>]),
                                 LAMBDA p : \A j \in 1..(p[1] - 1) : key[j] # key[p[1]]) :
                          key \in {List(keys)} } } : TRUE

\* The loop "if key not in seen: seen.add(key); unique.append(item)" over
\* the list whose i-th key is keys[i]: item i is appended iff no earlier
\* item has its key. (key names the list of keys, computed once.)
KeepFirstSeen(s, keys) ==
    CHOOSE unique \in
        { Unpair(SelectSeq(List([i \in DOMAIN s |-> <<i, s[i]>>]),
                           LAMBDA p : \A j \in 1..(p[1] - 1) : key[j] # key[p[1]])) :
            key \in {List(keys)} } : TRUE

_deduplicate_flights(fl) ==
    KeepFirstSeen(fl, [i \in DOMAIN fl |-> FlightKey(fl[i])])

_deduplicate_hotels(hl) ==
    KeepFirstSeen(hl, [i \in DOMAIN hl |-> HotelKey(hl[i])])

-----------------------------------------------------------------------------
(* Providers and their fixtures *)

\* The tasks lists of FlightService / HotelService.search_all_providers.
FlightProviders == << "amadeus", "skyscanner" >>
HotelProviders == << "booking.com", "expedia", "airbnb" >>
Providers == [flights |-> FlightProviders, hotels |-> HotelProviders]
Categories == {"flights", "hotels"}
AllProviders == Range(FlightProviders) \cup Range(HotelProviders)

FlightOption(id, airline, number, departure, price, layovers, source) ==
    [id |-> id, airline |-> airline, flight_number |-> number,
     departure_time |-> departure, price |-> price, layovers |-> layovers,
     source |-> source]

HotelOption(id, name, address, total, rating, amenities, source) ==
    [id |-> id, name |-> name, address |-> address, total_price |-> total,
     rating |-> rating, amenities |-> amenities, source |-> source]

\* FlightBookingAgent._generate_mock_flights
_generate_mock_flights(req) ==
    << FlightOption("flight_1", "American Airlines", "AA1234",
                    req.start_date \o "T08:00", 450 * req.travelers, 1, "amadeus"),
       FlightOption("flight_2", "Delta Airlines", "DL5678",
                    req.start_date \o "T08:00", 520 * req.travelers, 0, "skyscanner"),
       FlightOption("flight_3", "United Airlines", "UA9012",
                    req.start_date \o "T08:00", 480 * req.travelers, 1, "amadeus") >>

\* An except branch that returns no offers.
NoMockFlights(req) == <<>>

\* AmadeusFlightClient._get_mock_flights
AmadeusMockFlights(req) ==
    << FlightOption("amadeus_flight_1", "American Airlines", "AA1234",
                    req.start_date \o "T08:00", 450 * req.travelers, 1, "amadeus"),
       FlightOption("amadeus_flight_2", "Delta Airlines", "DL5678",
                    req.start_date \o "T08:00", 520 * req.travelers, 0, "amadeus") >>

\* SkyscannerFlightClient._get_mock_flights
SkyscannerMockFlights(req) ==
    << FlightOption("skyscanner_flight_1", "United Airlines", "UA9012",
                    req.start_date \o "T10:00", 480 * req.travelers, 1, "skyscanner") >>

\* HotelBookingAgent._generate_mock_hotels
_generate_mock_hotels(req) ==
    << HotelOption("hotel_1", "Grand Plaza Hotel", "123 Main Street, Downtown",
                   120 * req.nights, 45, 5, "booking.com"),
       HotelOption("hotel_2", "Comfort Inn Central", "456 Business District",
                   85 * req.nights, 40, 4, "expedia"),
       HotelOption("hotel_3", "Budget Stay Hostel", "789 Backpacker Lane",
                   45 * req.nights, 35, 4, "airbnb") >>

\* BookingComClient._get_mock_hotels
BookingMockHotels(req) ==
    << HotelOption("booking_hotel_1", "Grand Plaza Hotel",
                   "123 Main Street, " \o req.destination,
                   120 * req.nights, 45, 5, "booking.com"),
       HotelOption("booking_hotel_2", "Comfort Inn Central",
                   "456 Business District, " \o req.destination,
                   85 * req.nights, 40, 4, "booking.com") >>

\* ExpediaClient._get_mock_hotels
ExpediaMockHotels(req) ==
    << HotelOption("expedia_hotel_1", "Hilton Garden Inn",
                   "789 Downtown, " \o req.destination,
                   95 * req.nights, 42, 4, "expedia"),
       HotelOption("expedia_hotel_2", "Budget Stay Hostel",
                   "321 Backpacker Lane, " \o req.destination,
                   45 * req.nights, 35, 3, "expedia") >>

\* AirbnbClient._get_mock_accommodations
AirbnbMockAccommodations(req) ==
    << HotelOption("airbnb_1", "Cozy Downtown Apartment",
                   "456 Residential Area, " \o req.destination,
                   75 * req.nights, 47, 4, "airbnb") >>

\* What the clients that are mocks return.
MockOffers(p, req) ==
    CASE p = "skyscanner"  -> SkyscannerMockFlights(req)
      [] p = "booking.com" -> BookingMockHotels(req)
      [] p = "expedia"     -> ExpediaMockHotels(req)
      [] p = "airbnb"      -> AirbnbMockAccommodations(req)

\* One offer of an Amadeus response parses into a FlightOption unless the
\* constructor raises (price must be > 0), in which case it is skipped.
AmadeusOfferParses(offer, req) == offer.total * req.travelers > 0

\* AmadeusFlightClient._parse_amadeus_response
_parse_amadeus_response(response, req) ==
    LET good == SelectSeq(response, LAMBDA o : AmadeusOfferParses(o, req))
    IN  [i \in DOMAIN good |->
            FlightOption(good[i].id, good[i].carrierCode,
                         good[i].carrierCode \o good[i].number,
                         req.start_date \o "T08:00",
                         good[i].total * req.travelers, 0, "amadeus")]

-----------------------------------------------------------------------------
(* asyncio.gather and search_all_providers *)

\* A provider call: running, or completed with a list or with an exception.
\* why tells how a list came about: "response", "fixture" (a mock
\* client's data), "error" / "timeout" (Amadeus's fixture after its request
\* failed).
Idle == [state |-> "idle", result |-> <<>>, why |-> ""]
Running == [state |-> "running", result |-> <<>>, why |-> ""]
Returned(list, why) == [state |-> "returned", result |-> list, why |-> why]
Raised == [state |-> "raised", result |-> <<>>, why |-> ""]
Cancelled == [state |-> "cancelled", result |-> <<>>, why |-> ""]

RECURSIVE Concat(_)
Concat(lists) == IF lists = <<>> THEN <<>> ELSE Head(lists) \o Concat(Tail(lists))

\* A collection that one exception aborts (gather without
\* return_exceptions, whose exception search_all_providers' except branch
\* turns into []).
ExtendOrAbort(results) ==
    IF \E i \in DOMAIN results : results[i].state = "raised" THEN <<>>
    ELSE Concat([i \in DOMAIN results |-> results[i].result])

\* A wait for the first call to complete (asyncio.wait with
\* FIRST_COMPLETED), which hands over that call's outcome alone.
GatherFirstCompleted(ts, order, done) ==
    IF done = <<>> THEN <<>> ELSE << ts[Head(done)] >>

\* asyncio.gather(*tasks, return_exceptions=True): the outcomes of the
\* calls in the order of the tasks list.
GatherResults(ts, order, done) == [i \in DOMAIN order |-> ts[order[i]]]

RECURSIVE Extend(_)
\* "for result in results: if isinstance(result, list): all.extend(result)"
Extend(results) ==
    IF results = <<>> THEN <<>>
    ELSE (IF Head(results).state = "returned" THEN Head(results).result ELSE <<>>)
         \o Extend(Tail(results))

\* FlightService.search_all_providers, from the gathered results on.
SearchAllFlights(results) ==
    LET all_flights == Extend(results)
    IN  SortAscending(all_flights, [i \in DOMAIN all_flights |-> all_flights[i].price])

\* HotelService.search_all_providers, from the gathered results on.
SearchAllHotels(results) ==
    LET all_hotels == Extend(results)
    IN  SortAscending(all_hotels, [i \in DOMAIN all_hotels |-> all_hotels[i].total_price])

\* return unique[:10]
TopOptions == 10

\* Request timeout of BaseAPIClient, in seconds.
timeout == 30

\* No endpoint has been called on an empty database.
\* Before the first call there is no response.
NoResponse == [op |-> "", id |-> "", status_code |-> 0, body |-> None]

NotServing ==
    /\ runs = <<>>
    /\ travel_plans = <<>>
    /\ bookings = <<>>
    /\ issued = {}
    /\ background = {}
    /\ http_response = NoResponse
    /\ reservations = {}

\* create_travel_plan has not been called.
NotPlanning ==
    /\ request_data = None
    /\ plan_details = None
    /\ store_plan = "idle"
    /\ pc = "idle"
    /\ exception = ""
    /\ search = [c \in Categories |-> "idle"]
    /\ agent_options = [c \in Categories |-> <<>>]
    /\ tasks = [p \in AllProviders |-> Idle]
    /\ amadeus = [awaiting |-> "", elapsed |-> 0, access_token |-> FALSE]
    /\ completed = [c \in Categories |-> <<>>]
    /\ external = [c \in Categories |-> [returned |-> FALSE, offers |-> <<>>]]
    /\ travel_plan = None

-----------------------------------------------------------------------------
(* The deduplicators called on arbitrary offer lists *)

MaxOffers == 3

DedupAirlines == {"American Airlines", "AMERICAN AIRLINES", " American Airlines"}
DedupFlightNumbers == {"AA1234"}
DedupDepartures == {"2024-06-15", "2024-06-16"}
DedupFlightPrices == {430, 450}
DedupFlightSources == {"amadeus"}

DedupFlightOffers ==
    {[id |-> src \o "_flight_1", airline |-> a, flight_number |-> n,
      departure_time |-> d, price |-> p, layovers |-> 0, source |-> src] :
        a \in DedupAirlines, n \in DedupFlightNumbers, d \in DedupDepartures,
        p \in DedupFlightPrices, src \in DedupFlightSources}

DedupHotelNames ==
    {"Grand Plaza Hotel", "GRAND PLAZA HOTEL", "Grand Plaza Hotel ", "Comfort Inn Central"}
DedupHotelAddresses == {"123 Main Street, Downtown"}
DedupHotelPrices == {240, 200}
DedupHotelSources == {"booking.com"}

DedupHotelOffers ==
    {[id |-> src \o "_hotel_1", name |-> n, address |-> a, total_price |-> p,
      rating |-> 45, amenities |-> 5, source |-> src] :
        n \in DedupHotelNames, a \in DedupHotelAddresses,
        p \in DedupHotelPrices, src \in DedupHotelSources}

DedupInit ==
    /\ \/ flights \in SeqUpTo(DedupFlightOffers, MaxOffers) /\ hotels = <<>>
       \/ flights = <<>> /\ hotels \in SeqUpTo(DedupHotelOffers, MaxOffers)
    /\ unique_flights = <<>>
    /\ unique_hotels = <<>>
    /\ returned = {}
    /\ request = None
    /\ flight_options = <<>>
    /\ hotel_options = <<>>
    /\ budget_optimization = None
    /\ NotPlanning
    /\ NotServing

Call_deduplicate_flights ==
    /\ "_deduplicate_flights" \notin returned
    /\ unique_flights' = _deduplicate_flights(flights)
    /\ returned' = returned \cup {"_deduplicate_flights"}
    /\ UNCHANGED <<service_vars, flights, hotels, unique_hotels, plan_vars>>

Call_deduplicate_hotels ==
    /\ "_deduplicate_hotels" \notin returned
    /\ unique_hotels' = _deduplicate_hotels(hotels)
    /\ returned' = returned \cup {"_deduplicate_hotels"}
    /\ UNCHANGED <<service_vars, flights, hotels, unique_flights, plan_vars>>

DedupNext == Call_deduplicate_flights \/ Call_deduplicate_hotels

DedupSpec == DedupInit /\ [][DedupNext]_vars

-----------------------------------------------------------------------------
(* Claims about the deduplicators (under DedupSpec) *)

\* The positions of the offers of s that share the key of s[i].
Group(keys, i) == {j \in DOMAIN keys : keys[j] = keys[i]}

FirstOf(S) == CHOOSE i \in S : \A j \in S : i <= j

\* The first-seen offer among the cheapest of a group.
CheapestOf(S, prices) ==
    FirstOf({i \in S : \A j \in S : prices[i] <= prices[j]})

FlightKeys == [i \in DOMAIN flights |-> FlightKey(flights[i])]
HotelKeys == [i \in DOMAIN hotels |-> HotelKey(hotels[i])]
FlightPrices == [i \in DOMAIN flights |-> flights[i].price]
HotelPrices == [i \in DOMAIN hotels |-> hotels[i].total_price]

\* The offers of out whose key is k.
Survivors(out, outkeys, k) == {i \in DOMAIN out : outkeys[i] = k}

UniqueFlightKeys == [i \in DOMAIN unique_flights |-> FlightKey(unique_flights[i])]
UniqueHotelKeys == [i \in DOMAIN unique_hotels |-> HotelKey(unique_hotels[i])]

\* C1 as stated: for every group of offers with the same identity key the
\* one offer that survives deduplication is the group's cheapest (the
\* first-seen of the cheapest), for flights and for hotels.
C1_KeepsCheapest ==
    /\ "_deduplicate_flights" \in returned =>
          \A i \in DOMAIN flights :
              \E k \in DOMAIN unique_flights :
                  /\ Survivors(unique_flights, UniqueFlightKeys, FlightKeys[i]) = {k}
                  /\ unique_flights[k] =
                        flights[CheapestOf(Group(FlightKeys, i), FlightPrices)]
    /\ "_deduplicate_hotels" \in returned =>
          \A i \in DOMAIN hotels :
              \E k \in DOMAIN unique_hotels :
                  /\ Survivors(unique_hotels, UniqueHotelKeys, HotelKeys[i]) = {k}
                  /\ unique_hotels[k] =
                        hotels[CheapestOf(Group(HotelKeys, i), HotelPrices)]

\* C1 as amended: for every group of offers with the same key (the key the
\* code computes) the one offer that survives deduplication is the group's
\* first-seen offer, whatever its price, for flights and for hotels.
C1_KeepsFirstSeen ==
    /\ "_deduplicate_flights" \in returned =>
          \A i \in DOMAIN flights :
              \E k \in DOMAIN unique_flights :
                  /\ Survivors(unique_flights, UniqueFlightKeys, FlightKeys[i]) = {k}
                  /\ unique_flights[k] = flights[FirstOf(Group(FlightKeys, i))]
    /\ "_deduplicate_hotels" \in returned =>
          \A i \in DOMAIN hotels :
              \E k \in DOMAIN unique_hotels :
                  /\ Survivors(unique_hotels, UniqueHotelKeys, HotelKeys[i]) = {k}
                  /\ unique_hotels[k] = hotels[FirstOf(Group(HotelKeys, i))]

\* The claim's example: the same flight offered at 450 (seen first) and at
\* 430 (seen second); the deduplicator has returned the 450 offer alone.
C1_Witness ==
    /\ "_deduplicate_flights" \in returned
    /\ Len(flights) = 2
    /\ FlightKeys[1] = FlightKeys[2]
    /\ flights[1].departure_time = flights[2].departure_time
    /\ flights[1].price = 450 /\ flights[2].price = 430
    /\ unique_flights = <<flights[1]>>

\* C13: whatever the input list, the deduplicator's output is no longer
\* than its input, holds offers of the input only, and holds exactly one
\* offer for every key that occurs in the input (the key being the one the
\* deduplicator computes); for the empty list it is the empty list.
C13_OneOfferPerKey ==
    /\ "_deduplicate_flights" \in returned =>
          /\ Len(unique_flights) <= Len(flights)
          /\ Range(unique_flights) \subseteq Range(flights)
          /\ \A i \in DOMAIN flights :
                Cardinality(Survivors(unique_flights, UniqueFlightKeys, FlightKeys[i])) = 1
          /\ Len(unique_flights) = Cardinality(Range(FlightKeys))
          /\ flights = <<>> => unique_flights = <<>>
    /\ "_deduplicate_hotels" \in returned =>
          /\ Len(unique_hotels) <= Len(hotels)
          /\ Range(unique_hotels) \subseteq Range(hotels)
          /\ \A i \in DOMAIN hotels :
                Cardinality(Survivors(unique_hotels, UniqueHotelKeys, HotelKeys[i])) = 1
          /\ Len(unique_hotels) = Cardinality(Range(HotelKeys))
          /\ hotels = <<>> => unique_hotels = <<>>

\* Three hotel offers under two keys have been deduplicated to two.
C13_Witness ==
    /\ "_deduplicate_hotels" \in returned
    /\ Len(hotels) = 3
    /\ Cardinality(Range(HotelKeys)) = 2
    /\ Len(unique_hotels) = 2

RECURSIVE TrimLeft(_)
TrimLeft(s) ==
    IF Len(s) > 0 /\ SubSeq(s, 1, 1) = " " THEN TrimLeft(SubSeq(s, 2, Len(s))) ELSE s

RECURSIVE TrimRight(_)
TrimRight(s) ==
    IF Len(s) > 0 /\ SubSeq(s, Len(s), Len(s)) = " "
      THEN TrimRight(SubSeq(s, 1, Len(s) - 1)) ELSE s

\* A string case-folded and trimmed of surrounding whitespace.
Normalized(s) == lower(TrimRight(TrimLeft(s)))

\* Equal identity keys as C14 states them.
SameFlightNormalized(f, g) ==
    /\ Normalized(f.airline) = Normalized(g.airline)
    /\ Normalized(f.flight_number) = Normalized(g.flight_number)
    /\ f.departure_time = g.departure_time

SameHotelNormalized(h, g) ==
    /\ Normalized(h.name) = Normalized(g.name)
    /\ Normalized(h.address) = Normalized(g.address)

\* Equal keys as the flights and hotels are written.
SameFlightAsWritten(f, g) ==
    f.airline = g.airline /\ f.flight_number = g.flight_number

SameHotelIgnoringCase(h, g) ==
    lower(h.name) = lower(g.name) /\ lower(h.address) = lower(g.address)

\* C14 as stated: two offers are duplicates exactly when their keys,
\* (airline, flight number, departure date) for flights and (name, address)
\* for hotels, are equal after case-folding and trimming: no two offers of
\* the output are such duplicates (duplicates are collapsed), and every
\* offer of the input has its duplicate in the output (what is no duplicate
\* is kept).
C14_DuplicatesByNormalizedKey ==
    /\ "_deduplicate_flights" \in returned =>
          /\ \A k, l \in DOMAIN unique_flights :
                k # l => ~SameFlightNormalized(unique_flights[k], unique_flights[l])
          /\ \A i \in DOMAIN flights : \E k \in DOMAIN unique_flights :
                SameFlightNormalized(unique_flights[k], flights[i])
    /\ "_deduplicate_hotels" \in returned =>
          /\ \A k, l \in DOMAIN unique_hotels :
                k # l => ~SameHotelNormalized(unique_hotels[k], unique_hotels[l])
          /\ \A i \in DOMAIN hotels : \E k \in DOMAIN unique_hotels :
                SameHotelNormalized(unique_hotels[k], hotels[i])

\* C14 as amended: two flights are duplicates exactly when their airline
\* and flight number are equal as written (letter case and whitespace
\* count, the departure date does not); two hotels exactly when name and
\* address are equal after lower-casing (whitespace counts). No two offers
\* of the output are such duplicates, and every offer of the input has its
\* duplicate in the output.
C14_DuplicatesByWrittenKey ==
    /\ "_deduplicate_flights" \in returned =>
          /\ \A k, l \in DOMAIN unique_flights :
                k # l => ~SameFlightAsWritten(unique_flights[k], unique_flights[l])
          /\ \A i \in DOMAIN flights : \E k \in DOMAIN unique_flights :
                SameFlightAsWritten(unique_flights[k], flights[i])
    /\ "_deduplicate_hotels" \in returned =>
          /\ \A k, l \in DOMAIN unique_hotels :
                k # l => ~SameHotelIgnoringCase(unique_hotels[k], unique_hotels[l])
          /\ \A i \in DOMAIN hotels : \E k \in DOMAIN unique_hotels :
                SameHotelIgnoringCase(unique_hotels[k], hotels[i])

\* The same flight written in two letter cases on one day, and once more
\* on another day: the two spellings are both kept, the other day's offer
\* is dropped.
C14_Witness ==
    /\ "_deduplicate_flights" \in returned
    /\ Len(flights) = 3
    /\ flights[1].airline = "American Airlines"
    /\ flights[2].airline = "AMERICAN AIRLINES"
    /\ flights[3].airline = "American Airlines"
    /\ flights[1].departure_time = flights[2].departure_time
    /\ flights[3].departure_time # flights[1].departure_time
    /\ unique_flights = <<flights[1], flights[2]>>

\* C15: the output lists the surviving offers in the order in which their
\* keys first appear in the input, not by price or anything else.
C15_FirstAppearanceOrder ==
    /\ "_deduplicate_flights" \in returned =>
          \A a, b \in DOMAIN unique_flights :
              a < b => FirstOf(Survivors(flights, FlightKeys, UniqueFlightKeys[a]))
                         < FirstOf(Survivors(flights, FlightKeys, UniqueFlightKeys[b]))
    /\ "_deduplicate_hotels" \in returned =>
          \A a, b \in DOMAIN unique_hotels :
              a < b => FirstOf(Survivors(hotels, HotelKeys, UniqueHotelKeys[a]))
                         < FirstOf(Survivors(hotels, HotelKeys, UniqueHotelKeys[b]))

\* Hotels under two keys, the dearer key's offer first, a duplicate of it
\* last: the output keeps the dearer offer in front of the cheaper one.
C15_Witness ==
    /\ "_deduplicate_hotels" \in returned
    /\ Len(hotels) = 3
    /\ HotelKeys[1] # HotelKeys[2] /\ HotelKeys[3] = HotelKeys[1]
    /\ hotels[1].total_price > hotels[2].total_price
    /\ unique_hotels = <<hotels[1], hotels[2]>>

-----------------------------------------------------------------------------
(* Python floats: IEEE 754 doubles, products and sums rounded to nearest, *)
(* ties to even                                                           *)

\* A double other than 0 is sign * m * 2^e with a 53-bit m, held in three
\* limbs of 18 bits: m = hi * 2^36 + mid * 2^18 + lo, 2^16 <= hi < 2^17.
Limb == 2^18

Double(sign, hi, mid, lo, e) ==
    [sign |-> sign, hi |-> hi, mid |-> mid, lo |-> lo, e |-> e]

FloatZero == Double(0, 0, 0, 0, 0)

\* The doubles of the literals of the code.
FloatLiterals ==
    ("0.4" :> Double(1, 104857, 157286, 104858, -54))
    @@ ("0.45" :> Double(1, 117964, 209715, 52429, -54))
    @@ ("0.10" :> Double(1, 104857, 157286, 104858, -56))
    @@ ("0.05" :> Double(1, 104857, 157286, 104858, -57))
    @@ ("0.15" :> Double(1, 78643, 52428, 209715, -55))
    @@ ("1.0" :> Double(1, 65536, 0, 0, -52))

Float(literal) == FloatLiterals[literal]

\* The number of bits of n, 1 <= n < 2^30.
BitLen(n) == CHOOSE k \in 1..30 : n < 2^k /\ 2 * n >= 2^k

\* The double nearest to (top * 2^36 + mid * 2^18 + lo) * 2^e, ties to
\* even, for 2^16 <= top < 2^30: the low s = BitLen(top) - 17 bits are
\* rounded away.
RoundToDouble(top, mid, lo, e) ==
    LET s == BitLen(top) - 17
        P == 2^s
        rest == lo % P
        lo1 == (lo \div P) + (mid % P) * (Limb \div P)
        mid1 == (mid \div P) + (top % P) * (Limb \div P)
        hi1 == top \div P
        up == \/ 2 * rest > P
              \/ 2 * rest = P /\ lo1 % 2 = 1
    IN  IF ~up THEN Double(1, hi1, mid1, lo1, e + s)
        ELSE IF lo1 + 1 < Limb THEN Double(1, hi1, mid1, lo1 + 1, e + s)
        ELSE IF mid1 + 1 < Limb THEN Double(1, hi1, mid1 + 1, 0, e + s)
        ELSE IF hi1 + 1 < 2^17 THEN Double(1, hi1 + 1, 0, 0, e + s)
        ELSE Double(1, 2^16, 0, 0, e + s + 1)

\* b * c for a float b holding an integer, |b| < 2^13, and a double c > 0.
FloatMul(b, c) ==
    IF b = 0 THEN FloatZero
    ELSE LET a == IF b < 0 THEN -b ELSE b
             p0 == a * c.lo
             p1 == a * c.mid + (p0 \div Limb)
             p2 == a * c.hi + (p1 \div Limb)
             product == RoundToDouble(p2, p1 % Limb, p0 % Limb, c.e)
         IN  [product EXCEPT !.sign = IF b < 0 THEN -1 ELSE 1]

\* x + y for doubles x, y > 0 whose exponents differ by at most 12.
FloatAdd(x, y) ==
    LET big == IF x.e >= y.e THEN x ELSE y
        small == IF x.e >= y.e THEN y ELSE x
        P == 2^(big.e - small.e)
        l0 == big.lo * P + small.lo
        l1 == big.mid * P + small.mid + (l0 \div Limb)
        l2 == big.hi * P + small.hi + (l1 \div Limb)
    IN  RoundToDouble(l2, l1 % Limb, l0 % Limb, small.e)

\* float(b) for an integer b.
FloatOfInt(b) == FloatMul(b, Float("1.0"))

-----------------------------------------------------------------------------
(* BudgetOptimizationAgent: the combination search and the advice *)

\* A quotient num / den of two floats, kept exact.
Ratio(n, d) == [num |-> n, den |-> d]

\* A value score whose budget part is not capped.
_value_score_uncapped(flight, hotel, remaining_budget) ==
    (10000 - 5 * flight.price + (IF flight.layovers = 0 THEN 2000 ELSE 0))
        + (hotel.rating * 200 + hotel.amenities * 200)
        + remaining_budget

\* 300 times the code's value score, which keeps it integral:
\*   flight_score = 100 - (price / 1000) * 50, + 20 without layovers
\*   hotel_score  = rating * 20 + len(amenities) * 2   (rating in tenths)
\*   budget_score = min(remaining_budget / 100, 10)
\*   value        = (flight_score + hotel_score + budget_score) / 3
_calculate_value_score(flight, hotel, remaining_budget) ==
    LET flight_score == 10000 - 5 * flight.price
                          + (IF flight.layovers = 0 THEN 2000 ELSE 0)
        hotel_score  == hotel.rating * 200 + hotel.amenities * 200
        budget_score == Min(remaining_budget, 1000)
    IN  flight_score + hotel_score + budget_score

RecNoCombinations ==
    "No combinations found within budget. Consider increasing budget or adjusting preferences."
RecUpgrade ==
    "Consider upgrading to higher quality options - you have budget flexibility."
RecAllocate ==
    "Allocate remaining budget for activities, dining, or travel insurance."
RecLimited ==
    "Limited options within budget. Consider flexible dates or alternative destinations."
RecGeneral ==
    << "Book flights 2-3 weeks in advance for best prices",
       "Consider package deals for additional savings",
       "Check for seasonal discounts and promotions" >>

\* Recommendations without the early return: the general advice follows
\* the "no combinations" message too.
_recommendations_without_return(combinations, budget) ==
    IF combinations = <<>> THEN << RecNoCombinations >> \o RecGeneral
    ELSE RecGeneral

\* Recommendations with the "limited options" check made first.
_recommendations_limited_first(combinations, budget) ==
    IF combinations = <<>> THEN << RecNoCombinations >>
    ELSE LET best_combo == combinations[1]
         IN  (IF Len(combinations) < 3 THEN << RecLimited >> ELSE <<>>)
             \o (IF best_combo.budget_utilization.num
                        < 70 * best_combo.budget_utilization.den
                   THEN << RecUpgrade >> ELSE <<>>)
             \o (IF best_combo.remaining_budget > 200
                   THEN << RecAllocate >> ELSE <<>>)
             \o RecGeneral

_generate_recommendations(combinations, budget) ==
    IF combinations = <<>> THEN << RecNoCombinations >>
    ELSE LET best_combo == combinations[1]
         IN  (IF best_combo.budget_utilization.num
                     < 70 * best_combo.budget_utilization.den
                THEN << RecUpgrade >> ELSE <<>>)
             \o (IF best_combo.remaining_budget > 200
                   THEN << RecAllocate >> ELSE <<>>)
             \o (IF Len(combinations) < 3 THEN << RecLimited >> ELSE <<>>)
             \o RecGeneral

\* The planner agent's breakdown: three parts.
_extract_budget_breakdown(total_budget) ==
    [flights    |-> FloatMul(total_budget, Float("0.4")),
     hotels     |-> FloatMul(total_budget, Float("0.45")),
     activities |-> FloatMul(total_budget, Float("0.15"))]

\* A breakdown with the shares of flights and hotels exchanged.
_breakdown_shares_exchanged(total_budget) ==
    [flights     |-> FloatMul(total_budget, Float("0.45")),
     hotels      |-> FloatMul(total_budget, Float("0.4")),
     activities  |-> FloatMul(total_budget, Float("0.10")),
     contingency |-> FloatMul(total_budget, Float("0.05"))]

\* The budget agent's breakdown: float products of the budget.
_calculate_budget_breakdown(total_budget) ==
    [flights     |-> FloatMul(total_budget, Float("0.4")),
     hotels      |-> FloatMul(total_budget, Float("0.45")),
     activities  |-> FloatMul(total_budget, Float("0.10")),
     contingency |-> FloatMul(total_budget, Float("0.05"))]

RECURSIVE Sum(_)
Sum(s) == IF s = <<>> THEN 0 ELSE Head(s) + Sum(Tail(s))

_generate_cost_analysis(combinations) ==
    IF combinations = <<>> THEN [error |-> "No valid combinations found"]
    ELSE LET costs == List([i \in DOMAIN combinations |-> combinations[i].total_cost])
             lo == CHOOSE c \in Range(costs) : \A d \in Range(costs) : c <= d
             hi == CHOOSE c \in Range(costs) : \A d \in Range(costs) : c >= d
         IN  [min_cost |-> lo, max_cost |-> hi,
              avg_cost |-> Ratio(Sum(costs), Len(costs)),
              cost_range |-> hi - lo,
              budget_efficiency |-> Len(combinations) * 10]

\* Nested loops whose inner loop never gets past the cheapest hotel.
CheapestHotelPair(sf, sh, k) ==
    [flight |-> sf[((k - 1) \div Len(sh)) + 1], hotel |-> sh[1]]

\* The pair of the k-th pass through the body of the nested loops
\* "for flight in sorted_flights: for hotel in sorted_hotels".
LoopPair(sf, sh, k) ==
    [flight |-> sf[((k - 1) \div Len(sh)) + 1], hotel |-> sh[((k - 1) % Len(sh)) + 1]]

Combination(pair, budget) ==
    LET total_cost == pair.flight.price + pair.hotel.total_price
        remaining_budget == budget - total_cost
    IN  [flight |-> pair.flight, hotel |-> pair.hotel,
         total_cost |-> total_cost,
         remaining_budget |-> remaining_budget,
         value_score |-> _calculate_value_score(pair.flight, pair.hotel, remaining_budget),
         budget_utilization |-> Ratio(total_cost * 100, budget)]

\* A check of the flight's price alone.
FlightFitsBudget(pair, budget) == pair.flight.price <= budget

\* if total_cost <= request.budget
FitsBudget(pair, budget) == pair.flight.price + pair.hotel.total_price <= budget

ValidCombinations(sf, sh, budget) ==
    LET pairs == List([k \in 1..(Len(sf) * Len(sh)) |-> LoopPair(sf, sh, k)])
        valid == SelectSeq(pairs, LAMBDA pr : FitsBudget(pr, budget))
    IN  List([i \in DOMAIN valid |-> Combination(valid[i], budget)])

TopK == 5

_analyze_options(req, fo, ho) ==
    LET sorted_flights == SortAscending(fo, [i \in DOMAIN fo |-> fo[i].price])
        sorted_hotels  == SortAscending(ho, [i \in DOMAIN ho |-> ho[i].total_price])
        found == ValidCombinations(sorted_flights, sorted_hotels, req.budget)
        valid_combinations ==
            SortDescending(found, [i \in DOMAIN found |-> found[i].value_score])
    IN  [total_combinations |-> Len(valid_combinations),
         top_combinations   |-> Take(valid_combinations, TopK),
         budget_breakdown   |-> _calculate_budget_breakdown(req.budget),
         recommendations    |-> _generate_recommendations(valid_combinations, req.budget),
         cost_analysis      |-> _generate_cost_analysis(valid_combinations)]

-----------------------------------------------------------------------------
(* _analyze_options called on arbitrary option lists and budgets *)

MaxFlightOptions == 3
MaxHotelOptions == 2

AnalyzeBudgets == {10, 600, 1300, 1900, 2000}

AnalyzeFlightOffers ==
    {[id |-> i, airline |-> "American Airlines", flight_number |-> "AA1234",
      departure_time |-> "2024-06-15", price |-> pl[1], layovers |-> pl[2],
      source |-> "amadeus"] :
        i \in {"flight_1", "flight_2"}, pl \in {<<450, 1>>, <<520, 0>>}}

AnalyzeHotelOffers ==
    {[id |-> "hotel_1", name |-> "Grand Plaza Hotel",
      address |-> "123 Main Street, Downtown", total_price |-> pra[1],
      rating |-> pra[2], amenities |-> pra[3], source |-> "booking.com"] :
        pra \in {<<840, 45, 5>>, <<90, 35, 3>>, <<90, 45, 5>>, <<310, 40, 7>>}}

AnalyzeInit ==
    /\ request \in [budget : AnalyzeBudgets]
    /\ flight_options \in SeqUpTo(AnalyzeFlightOffers, MaxFlightOptions)
    /\ hotel_options \in SeqUpTo(AnalyzeHotelOffers, MaxHotelOptions)
    /\ budget_optimization = None
    /\ returned = {}
    /\ flights = <<>> /\ unique_flights = <<>>
    /\ hotels = <<>> /\ unique_hotels = <<>>
    /\ NotPlanning
    /\ NotServing

Call_analyze_options ==
    /\ "_analyze_options" \notin returned
    /\ budget_optimization' = _analyze_options(request, flight_options, hotel_options)
    /\ returned' = returned \cup {"_analyze_options"}
    /\ UNCHANGED <<service_vars, dedup_vars, endpoint_vars, request, pc, exception, fanout_vars,
                   flight_options, hotel_options, travel_plan>>

AnalyzeNext == Call_analyze_options

AnalyzeSpec == AnalyzeInit /\ [][AnalyzeNext]_vars

-----------------------------------------------------------------------------
(* Claims about the combination search (under AnalyzeSpec) *)

\* C10: every combination the search returns pairs a flight and a hotel of
\* its inputs, carries total_cost = flight.price + hotel.total_price, and
\* that total is within the budget.
C10_CombinationsWithinBudget ==
    "_analyze_options" \in returned =>
        \A i \in DOMAIN budget_optimization.top_combinations :
            LET c == budget_optimization.top_combinations[i]
            IN  /\ c.flight \in Range(flight_options)
                /\ c.hotel \in Range(hotel_options)
                /\ c.total_cost = c.flight.price + c.hotel.total_price
                /\ c.total_cost <= request.budget
                /\ budget_optimization.cost_analysis.max_cost <= request.budget

\* The search has returned combinations although some pair of its inputs is
\* over the budget.
C10_Witness ==
    /\ "_analyze_options" \in returned
    /\ budget_optimization.top_combinations # <<>>
    /\ \E f \in Range(flight_options), h \in Range(hotel_options) :
           f.price + h.total_price > request.budget

\* The pairs (by position) of a flight and a hotel of the inputs that are
\* within the budget.
FeasiblePairs ==
    {ij \in (DOMAIN flight_options) \X (DOMAIN hotel_options) :
        flight_options[ij[1]].price + hotel_options[ij[2]].total_price
            <= request.budget}

PairCost(ij) == flight_options[ij[1]].price + hotel_options[ij[2]].total_price

\* C11: the combination search is complete: total_combinations is the
\* number of (flight, hotel) pairs of the inputs with price + total_price
\* <= budget; the cost analysis, made before the truncation, spans the
\* costs of all of them; and when no more than the top 5 exist, each
\* feasible pair is among the returned combinations, as often as it occurs
\* in the inputs.
C11_SearchComplete ==
    "_analyze_options" \in returned =>
        LET top == budget_optimization.top_combinations
            n == budget_optimization.total_combinations
        IN  /\ n = Cardinality(FeasiblePairs)
            /\ Len(top) = Min(n, TopK)
            /\ FeasiblePairs # {} =>
                  /\ \A ij \in FeasiblePairs :
                        /\ budget_optimization.cost_analysis.min_cost <= PairCost(ij)
                        /\ budget_optimization.cost_analysis.max_cost >= PairCost(ij)
                  /\ \E ij \in FeasiblePairs :
                        budget_optimization.cost_analysis.min_cost = PairCost(ij)
                  /\ \E ij \in FeasiblePairs :
                        budget_optimization.cost_analysis.max_cost = PairCost(ij)
            /\ n <= TopK =>
                  \A ij \in FeasiblePairs :
                      Cardinality({k \in DOMAIN top :
                                      /\ top[k].flight = flight_options[ij[1]]
                                      /\ top[k].hotel = hotel_options[ij[2]]})
                        = Cardinality({kl \in FeasiblePairs :
                                      /\ flight_options[kl[1]] = flight_options[ij[1]]
                                      /\ hotel_options[kl[2]] = hotel_options[ij[2]]})

\* The claim's example: budget 2000, flights at 450 and 520, two hotels of
\* which one costs 840: all 4 pairs are feasible and counted.
C11_Witness ==
    /\ "_analyze_options" \in returned
    /\ request.budget = 2000
    /\ Len(flight_options) = 2 /\ Len(hotel_options) = 2
    /\ flight_options[1].price = 450 /\ flight_options[2].price = 520
    /\ hotel_options[1].total_price = 840 /\ hotel_options[2].total_price = 310
    /\ budget_optimization.total_combinations = 4

\* The ids of the flights analysed, in ascending order.
FlightIds == << "flight_1", "flight_2" >>

IdRank(id) == CHOOSE r \in DOMAIN FlightIds : FlightIds[r] = id

\* C12 as stated: the returned combinations are sorted by value_score
\* descending; of two with equal value_score the one with the lower
\* total_cost comes first; of two with equal value_score and total_cost the
\* one with the smaller flight id comes first.
C12_TiesByCostThenFlightId ==
    "_analyze_options" \in returned =>
        LET top == budget_optimization.top_combinations
        IN  \A i, j \in DOMAIN top :
                i < j =>
                    \/ top[i].value_score > top[j].value_score
                    \/ /\ top[i].value_score = top[j].value_score
                       /\ \/ top[i].total_cost < top[j].total_cost
                          \/ /\ top[i].total_cost = top[j].total_cost
                             /\ IdRank(top[i].flight.id) <= IdRank(top[j].flight.id)

\* The nested loops reach the pair at positions ab of the inputs before the
\* pair at positions cd: flights go by ascending price, hotels by ascending
\* total_price, and offers of equal price in the order of the input.
LoopsReachBefore(ab, cd) ==
    LET FlightBefore(a, c) ==
            \/ flight_options[a].price < flight_options[c].price
            \/ flight_options[a].price = flight_options[c].price /\ a < c
        HotelBefore(b, d) ==
            \/ hotel_options[b].total_price < hotel_options[d].total_price
            \/ hotel_options[b].total_price = hotel_options[d].total_price /\ b < d
    IN  \/ FlightBefore(ab[1], cd[1])
        \/ ab[1] = cd[1] /\ HotelBefore(ab[2], cd[2])

\* The combination c pairs the offers at positions ab of the inputs.
PairsOffersAt(c, ab) ==
    c.flight = flight_options[ab[1]] /\ c.hotel = hotel_options[ab[2]]

\* C12 as amended: the returned combinations are sorted by value_score
\* descending, and two with equal value_score stand in the order in which
\* the nested loops found them (flights by ascending price, then hotels by
\* ascending total_price, equal prices in input order), whatever their
\* total_cost and flight id.
C12_TiesInLoopOrder ==
    "_analyze_options" \in returned =>
        LET top == budget_optimization.top_combinations
        IN  \A i, j \in DOMAIN top :
                i < j =>
                    \/ top[i].value_score > top[j].value_score
                    \/ /\ top[i].value_score = top[j].value_score
                       /\ \E ab, cd \in FeasiblePairs :
                              /\ PairsOffersAt(top[i], ab)
                              /\ PairsOffersAt(top[j], cd)
                              /\ ab = cd \/ LoopsReachBefore(ab, cd)

\* Two returned combinations have the same value_score and the dearer one
\* stands first: at budget 1300 the flight at 450 with the hotel at 310
\* (total 760) before the flight at 520 with the hotel at 90 (total 610).
C12_Witness ==
    /\ "_analyze_options" \in returned
    /\ request.budget = 1300
    /\ \E i, j \in DOMAIN budget_optimization.top_combinations :
          LET top == budget_optimization.top_combinations
          IN  /\ i < j
              /\ top[i].value_score = top[j].value_score
              /\ top[i].total_cost = 760 /\ top[j].total_cost = 610

\* C16: with an empty flight list or an empty hotel list the search finds
\* no combination and recommends the single "no combinations found within
\* budget" message, none of the conditional or general ones.
C16_EmptyInputNoCombinations ==
    ("_analyze_options" \in returned
        /\ (flight_options = <<>> \/ hotel_options = <<>>)) =>
        /\ budget_optimization.total_combinations = 0
        /\ budget_optimization.top_combinations = <<>>
        /\ budget_optimization.recommendations = << RecNoCombinations >>

\* The search has returned for hotels that the budget covers, without a
\* flight.
C16_Witness ==
    /\ "_analyze_options" \in returned
    /\ flight_options = <<>>
    /\ hotel_options # <<>>
    /\ \A i \in DOMAIN hotel_options : hotel_options[i].total_price <= request.budget

\* C17: with a feasible combination, the recommendations are, in this
\* order: the "upgrade" message iff the first-ranked combination uses less
\* than 70% of the budget; the "allocate remaining budget" message iff it
\* leaves more than 200; the "limited options" message iff fewer than 3
\* combinations are feasible; then the three general strings. Nothing is
\* reordered or left out.
C17_RecommendationOrder ==
    ("_analyze_options" \in returned
        /\ budget_optimization.total_combinations > 0) =>
        LET best == budget_optimization.top_combinations[1]
        IN  budget_optimization.recommendations =
                (IF best.total_cost * 100 < 70 * request.budget
                   THEN << RecUpgrade >> ELSE <<>>)
                \o (IF request.budget - best.total_cost > 200
                      THEN << RecAllocate >> ELSE <<>>)
                \o (IF Cardinality(FeasiblePairs) < 3
                      THEN << RecLimited >> ELSE <<>>)
                \o << "Book flights 2-3 weeks in advance for best prices",
                      "Consider package deals for additional savings",
                      "Check for seasonal discounts and promotions" >>

\* One flight and two hotels within a budget of 2000: all three
\* conditional messages apply, and six recommendations are returned.
C17_Witness ==
    /\ "_analyze_options" \in returned
    /\ request.budget = 2000
    /\ budget_optimization.total_combinations = 2
    /\ Len(budget_optimization.recommendations) = 6
    /\ budget_optimization.recommendations[3] = RecLimited

\* C19: every returned combination's value_score is
\* (flightScore + lodgingScore + budgetScore) / 3 with
\* flightScore = 100 - (price / 1000) * 50, plus 20 without layovers,
\* lodgingScore = rating * 20 + 2 * (number of amenities) and
\* budgetScore = min(remaining budget / 100, 10), which never exceeds 10.
\* (Scores are kept 300-fold and ratings in tenths: the three parts are
\* 100-fold, and their sum is the 300-fold value_score.)
C19_ValueScoreFormula ==
    "_analyze_options" \in returned =>
        \A i \in DOMAIN budget_optimization.top_combinations :
            LET c == budget_optimization.top_combinations[i]
                remaining == request.budget - (c.flight.price + c.hotel.total_price)
                flightScore == 100 * 100 - (c.flight.price * 50 * 100) \div 1000
                                 + (IF c.flight.layovers = 0 THEN 20 * 100 ELSE 0)
                lodgingScore == (c.hotel.rating * 20 * 100) \div 10
                                  + 2 * 100 * c.hotel.amenities
                budgetScore == c.value_score - flightScore - lodgingScore
            IN  /\ (c.flight.price * 50 * 100) % 1000 = 0
                /\ c.remaining_budget = remaining
                /\ budgetScore = (IF remaining <= 10 * 100 THEN remaining ELSE 10 * 100)
                /\ budgetScore <= 10 * 100

\* A combination that leaves more than 1000 of the budget, so that the cap
\* of the budget score applies.
C19_Witness ==
    /\ "_analyze_options" \in returned
    /\ \E i \in DOMAIN budget_optimization.top_combinations :
          budget_optimization.top_combinations[i].remaining_budget > 1000

-----------------------------------------------------------------------------
(* The budget breakdowns computed for arbitrary budgets *)

MaxBudget == 64

\* Small budgets, a budget that one pair of offers fits, and the budget of
\* C11's example.
BreakdownBudgets == (1..MaxBudget) \cup {603, 2000}

BreakdownFlightLists ==
    { <<>>,
      << [id |-> "flight_1", airline |-> "American Airlines",
          flight_number |-> "AA1234", departure_time |-> "2024-06-15",
          price |-> 450, layovers |-> 1, source |-> "amadeus"] >> }

BreakdownHotelLists ==
    { <<>>,
      << [id |-> "hotel_1", name |-> "Grand Plaza Hotel",
          address |-> "123 Main Street, Downtown", total_price |-> 90,
          rating |-> 35, amenities |-> 3, source |-> "booking.com"] >> }

BreakdownInit ==
    /\ request \in [budget : BreakdownBudgets]
    /\ flight_options \in BreakdownFlightLists
    /\ hotel_options \in BreakdownHotelLists
    /\ budget_optimization = None
    /\ returned = {}
    /\ flights = <<>> /\ unique_flights = <<>>
    /\ hotels = <<>> /\ unique_hotels = <<>>
    /\ NotPlanning
    /\ NotServing

\* The budget agent's breakdown, as _analyze_options returns it with the
\* combinations.
Call_calculate_budget_breakdown ==
    /\ "_calculate_budget_breakdown" \notin returned
    /\ budget_optimization' = _analyze_options(request, flight_options, hotel_options)
    /\ returned' = returned \cup {"_calculate_budget_breakdown"}
    /\ UNCHANGED <<service_vars, dedup_vars, endpoint_vars, request, pc, exception, fanout_vars,
                   flight_options, hotel_options, travel_plan>>

\* The planner agent's breakdown, as its plan_details hold it.
Call_extract_budget_breakdown ==
    /\ "_extract_budget_breakdown" \notin returned
    /\ plan_details' = [budget_breakdown |-> _extract_budget_breakdown(request.budget)]
    /\ returned' = returned \cup {"_extract_budget_breakdown"}
    /\ UNCHANGED <<service_vars, dedup_vars, request_data, store_plan, request, pc, exception,
                   fanout_vars, flight_options, hotel_options, budget_optimization,
                   travel_plan>>

BreakdownNext == Call_calculate_budget_breakdown \/ Call_extract_budget_breakdown

BreakdownSpec == BreakdownInit /\ [][BreakdownNext]_vars

-----------------------------------------------------------------------------
(* Claims about the budget breakdowns (under BreakdownSpec) *)

\* The next double above x > 0.
NextUp(x) ==
    IF x.lo + 1 < Limb THEN [x EXCEPT !.lo = @ + 1]
    ELSE IF x.mid + 1 < Limb THEN [x EXCEPT !.lo = 0, !.mid = @ + 1]
    ELSE IF x.hi + 1 < 2^17 THEN [x EXCEPT !.lo = 0, !.mid = 0, !.hi = @ + 1]
    ELSE Double(x.sign, 2^16, 0, 0, x.e + 1)

\* x and y are the same double or neighbours.
WithinOneUlp(x, y) == x = y \/ x = NextUp(y) \/ y = NextUp(x)

\* The parts of the budget agent's breakdown added up in the order of its
\* keys, as floats.
SumOfBreakdown ==
    LET parts == budget_optimization.budget_breakdown
    IN  FloatAdd(FloatAdd(FloatAdd(parts.flights, parts.hotels), parts.activities),
                 parts.contingency)

\* The parts of the planner agent's breakdown added up likewise.
SumOfPlannerBreakdown ==
    LET parts == plan_details.budget_breakdown
    IN  FloatAdd(FloatAdd(parts.flights, parts.hotels), parts.activities)

\* C18 as stated: every budget breakdown computed has exactly the parts
\* flights, hotels, activities and contingency, and its parts sum to the
\* total budget.
C18_PartsSumToBudget ==
    /\ "_calculate_budget_breakdown" \in returned =>
          /\ DOMAIN budget_optimization.budget_breakdown
                = {"flights", "hotels", "activities", "contingency"}
          /\ SumOfBreakdown = FloatOfInt(request.budget)
    /\ "_extract_budget_breakdown" \in returned =>
          DOMAIN plan_details.budget_breakdown
            = {"flights", "hotels", "activities", "contingency"}

\* C18 as amended: the budget agent's breakdown has exactly the parts
\* flights, hotels, activities and contingency, which are the float
\* products of the budget with 0.4, 0.45, 0.10 and 0.05, whatever the
\* offers and combinations; their float sum is the budget or a double next
\* to it. The planner agent's breakdown has exactly the parts flights,
\* hotels and activities, the float products of the budget with 0.4, 0.45
\* and 0.15, with a sum as near.
C18_PartsAreFloatProducts ==
    /\ "_calculate_budget_breakdown" \in returned =>
          LET parts == budget_optimization.budget_breakdown
          IN  /\ DOMAIN parts = {"flights", "hotels", "activities", "contingency"}
              /\ parts.flights = FloatMul(request.budget, Float("0.4"))
              /\ parts.hotels = FloatMul(request.budget, Float("0.45"))
              /\ parts.activities = FloatMul(request.budget, Float("0.10"))
              /\ parts.contingency = FloatMul(request.budget, Float("0.05"))
              /\ WithinOneUlp(SumOfBreakdown, FloatOfInt(request.budget))
    /\ "_extract_budget_breakdown" \in returned =>
          LET parts == plan_details.budget_breakdown
          IN  /\ DOMAIN parts = {"flights", "hotels", "activities"}
              /\ parts.flights = FloatMul(request.budget, Float("0.4"))
              /\ parts.hotels = FloatMul(request.budget, Float("0.45"))
              /\ parts.activities = FloatMul(request.budget, Float("0.15"))
              /\ WithinOneUlp(SumOfPlannerBreakdown, FloatOfInt(request.budget))

\* The breakdown of a budget of 3: 1.2000000000000002, 1.35,
\* 0.30000000000000004 and 0.15000000000000002, which add up to
\* 3.0000000000000004, the double after 3.0.
C18_Witness ==
    /\ "_calculate_budget_breakdown" \in returned
    /\ request.budget = 3
    /\ budget_optimization.budget_breakdown.flights
          = NextUp(Double(1, 78643, 52428, 209715, -52))
    /\ SumOfBreakdown = NextUp(FloatOfInt(3))

-----------------------------------------------------------------------------
(* TravelService.create_travel_plan *)

\* The requests: the tests' low-budget request, which no flight and hotel
\* fit (test_travel_plan_edge_case_budget), and one that every pair fits,
\* with a destination that makes a provider's address equal the hotel
\* agent's.
Requests ==
    { [destination |-> "Prague, Czech Republic", start_date |-> "2024-05-01",
       nights |-> 2, budget |-> 500, travelers |-> 1],
      [destination |-> "Downtown", start_date |-> "2024-07-01",
       nights |-> 7, budget |-> 3000, travelers |-> 1] }

\* An offer of an Amadeus response ("data"), before parsing.
AmadeusOffer(id, carrierCode, number, total) ==
    [id |-> id, carrierCode |-> carrierCode, number |-> number, total |-> total]

\* The responses Amadeus may give: no offer; one offer, at the price of
\* Skyscanner's; two offers; and an offer that does not parse (its total of
\* 0 is no valid FlightOption price) before one that does.
AmadeusResponses ==
    { << >>,
      << AmadeusOffer("1", "UA", "9012", 480) >>,
      << AmadeusOffer("1", "UA", "9012", 480), AmadeusOffer("2", "AA", "1234", 430) >>,
      << AmadeusOffer("1", "AA", "1234", 0), AmadeusOffer("2", "UA", "9012", 480) >> }

CategoryOf(p) == IF p \in Range(FlightProviders) THEN "flights" ELSE "hotels"

AllSettled(c) ==
    \A i \in DOMAIN Providers[c] : tasks[Providers[c][i]].state \in {"returned", "raised"}

\* Provider call p completes with outcome.
Complete(p, outcome) ==
    /\ tasks[p].state = "running"
    /\ tasks' = [tasks EXCEPT ![p] = outcome]
    /\ completed' = [completed EXCEPT ![CategoryOf(p)] = Append(@, p)]

\* A cancellation that reaches no provider call.
LeaveRunning(ts) == ts

\* A task.cancel() reaching the provider calls: those still running end
\* cancelled.
CancelTasks(ts) ==
    [p \in DOMAIN ts |-> IF ts[p].state = "running" THEN Cancelled ELSE ts[p]]

\* A request without a timeout.
NeverTimedOut(elapsed) == FALSE

\* httpx raises its timeout once the request has waited timeout seconds.
TimedOut(elapsed) == elapsed >= timeout

\* A TravelPlanRequest whose budget field has no gt=0.
ValidExceptBudget(data) ==
    /\ data.travelers >= 1 /\ data.travelers <= 10
    /\ data.nights > 0

\* The validation of TravelPlanRequest: budget gt 0, travelers ge 1 and
\* le 10, end_date after start_date.
TravelPlanRequestValid(data) ==
    /\ data.budget > 0
    /\ data.travelers >= 1 /\ data.travelers <= 10
    /\ data.nights > 0

\* Bodies that are no TravelPlanRequest: the negative budget of
\* test_create_travel_plan_invalid_budget, and a budget of 0.
InvalidRequestData ==
    { [destination |-> "Paris, France", start_date |-> "2024-06-15",
       nights |-> 7, budget |-> -100, travelers |-> 2],
      [destination |-> "Paris, France", start_date |-> "2024-06-15",
       nights |-> 7, budget |-> 0, travelers |-> 2] }

RequestData == Requests \cup InvalidRequestData

\* plan_details of TravelPlannerAgent.create_travel_plan.
PlanDetails(req) ==
    [destination |-> req.destination,
     duration_days |-> req.nights,
     budget_breakdown |-> _extract_budget_breakdown(req.budget)]

Init ==
    /\ flights = <<>> /\ unique_flights = <<>>
    /\ hotels = <<>> /\ unique_hotels = <<>>
    /\ returned = {}
    /\ request = None
    /\ flight_options = <<>>
    /\ hotel_options = <<>>
    /\ budget_optimization = None
    /\ NotPlanning
    /\ NotServing

\* POST /plan up to the await of create_travel_plan: the body is validated
\* into a TravelPlanRequest (a body that fails is answered 422 and the
\* endpoint's function never runs); then create_travel_plan: the planner
\* agent's task (a call of the language model, which returns or raises),
\* then the two searches are handed to asyncio.gather.
CallCreateTravelPlan(data, planner_ok) ==
    /\ pc = "idle"
    /\ request_data' = data
    /\ IF ~TravelPlanRequestValid(data)
         THEN /\ pc' = "rejected"
              /\ exception' = "ValidationError"
              /\ UNCHANGED <<request, plan_details, search>>
         ELSE /\ request' = data
              /\ IF planner_ok
                   THEN /\ plan_details' = PlanDetails(data)
                        /\ pc' = "gather"
                        /\ exception' = ""
                        /\ search' = [c \in Categories |-> "scheduled"]
                   ELSE /\ pc' = "raised"
                        /\ exception' = "AgentError"
                        /\ UNCHANGED <<plan_details, search>>
    /\ UNCHANGED <<service_vars, dedup_vars, returned, store_plan, agent_options, tasks, amadeus,
                   completed, external, flight_options, hotel_options,
                   budget_optimization, travel_plan>>

\* _search_flights up to its await: the flight agent (its model call
\* returns, or raises and the search returns []), then
\* search_all_providers creates the provider calls and gathers them;
\* Amadeus starts with its token request unless it holds a token.
SearchFlightsRuns(agent_ok) ==
    /\ pc = "gather"
    /\ search.flights = "scheduled"
    /\ IF agent_ok
         THEN /\ agent_options' =
                    [agent_options EXCEPT !.flights = _generate_mock_flights(request)]
              /\ tasks' = [tasks EXCEPT !["amadeus"] = Running, !["skyscanner"] = Running]
              /\ amadeus' = [amadeus EXCEPT
                    !.awaiting = IF amadeus.access_token THEN "search" ELSE "token",
                    !.elapsed = 0]
              /\ search' = [search EXCEPT !.flights = "fanout"]
              /\ UNCHANGED flight_options
         ELSE /\ search' = [search EXCEPT !.flights = "returned"]
              /\ flight_options' = <<>>
              /\ UNCHANGED <<agent_options, tasks, amadeus>>
    /\ UNCHANGED <<service_vars, dedup_vars, returned, endpoint_vars, request, pc, exception, completed, external,
                   hotel_options, budget_optimization, travel_plan>>

\* _search_hotels up to its await, likewise.
SearchHotelsRuns(agent_ok) ==
    /\ pc = "gather"
    /\ search.hotels = "scheduled"
    /\ IF agent_ok
         THEN /\ agent_options' =
                    [agent_options EXCEPT !.hotels = _generate_mock_hotels(request)]
              /\ tasks' = [tasks EXCEPT !["booking.com"] = Running,
                                        !["expedia"] = Running,
                                        !["airbnb"] = Running]
              /\ search' = [search EXCEPT !.hotels = "fanout"]
              /\ UNCHANGED hotel_options
         ELSE /\ search' = [search EXCEPT !.hotels = "returned"]
              /\ hotel_options' = <<>>
              /\ UNCHANGED <<agent_options, tasks>>
    /\ UNCHANGED <<service_vars, dedup_vars, returned, endpoint_vars, request, pc, exception, amadeus, completed,
                   external, flight_options, budget_optimization, travel_plan>>

\* Time passes for the Amadeus request in flight (in steps of 15 s).
Tick ==
    /\ amadeus.awaiting # ""
    /\ amadeus.elapsed < timeout
    /\ amadeus' = [amadeus EXCEPT !.elapsed = Min(@ + 15, timeout)]
    /\ UNCHANGED <<service_vars, dedup_vars, returned, endpoint_vars, request, pc, exception, search,
                   agent_options, tasks, completed, external, flight_options,
                   hotel_options, budget_optimization, travel_plan>>

\* _get_access_token: the token arrives, the search request is sent.
AmadeusTokenArrives ==
    /\ amadeus.awaiting = "token"
    /\ amadeus' = [awaiting |-> "search", elapsed |-> 0, access_token |-> TRUE]
    /\ UNCHANGED <<service_vars, dedup_vars, returned, endpoint_vars, request, pc, exception, search,
                   agent_options, tasks, completed, external, flight_options,
                   hotel_options, budget_optimization, travel_plan>>

\* search_flights: the flight offers arrive and are parsed.
AmadeusSearchArrives(response) ==
    /\ amadeus.awaiting = "search"
    /\ Complete("amadeus", Returned(_parse_amadeus_response(response, request), "response"))
    /\ amadeus' = [amadeus EXCEPT !.awaiting = "", !.elapsed = 0]
    /\ UNCHANGED <<service_vars, dedup_vars, returned, endpoint_vars, request, pc, exception, search,
                   agent_options, external, flight_options, hotel_options,
                   budget_optimization, travel_plan>>

\* search_flights: either request ends in an HTTP or transport error; the
\* except branch returns the fixture.
AmadeusRequestFails ==
    /\ amadeus.awaiting # ""
    /\ Complete("amadeus", Returned(AmadeusMockFlights(request), "error"))
    /\ amadeus' = [amadeus EXCEPT !.awaiting = "", !.elapsed = 0]
    /\ UNCHANGED <<service_vars, dedup_vars, returned, endpoint_vars, request, pc, exception, search,
                   agent_options, external, flight_options, hotel_options,
                   budget_optimization, travel_plan>>

\* search_flights: either request gets no answer within the timeout; httpx
\* raises and the except branch returns the fixture.
AmadeusRequestTimesOut ==
    /\ amadeus.awaiting # ""
    /\ TimedOut(amadeus.elapsed)
    /\ Complete("amadeus", Returned(AmadeusMockFlights(request), "timeout"))
    /\ amadeus' = [amadeus EXCEPT !.awaiting = "", !.elapsed = 0]
    /\ UNCHANGED <<service_vars, dedup_vars, returned, endpoint_vars, request, pc, exception, search,
                   agent_options, external, flight_options, hotel_options,
                   budget_optimization, travel_plan>>

\* A mock client (Skyscanner, Booking.com, Expedia, Airbnb) returns its
\* fixture: its try block builds fixed offers from the validated request.
MockProviderReturns(p) ==
    /\ p # "amadeus"
    /\ Complete(p, Returned(MockOffers(p, request), "fixture"))
    /\ UNCHANGED <<service_vars, dedup_vars, returned, endpoint_vars, request, pc, exception, search,
                   agent_options, amadeus, external, flight_options, hotel_options,
                   budget_optimization, travel_plan>>

\* An exception leaves a provider call (one raised outside the clients' try,
\* or inside an except branch); gather(return_exceptions=True) keeps it as
\* the call's result.
ProviderRaises(p) ==
    /\ Complete(p, Raised)
    /\ amadeus' = IF p = "amadeus"
                    THEN [amadeus EXCEPT !.awaiting = "", !.elapsed = 0]
                    ELSE amadeus
    /\ UNCHANGED <<service_vars, dedup_vars, returned, endpoint_vars, request, pc, exception, search,
                   agent_options, external, flight_options, hotel_options,
                   budget_optimization, travel_plan>>

\* Every flight provider call has completed: search_all_providers returns
\* the sorted list and _search_flights the first 10 of the deduplicated
\* agent + external offers.
SearchFlightsReturns ==
    /\ search.flights = "fanout"
    /\ AllSettled("flights")
    /\ LET results == GatherResults(tasks, FlightProviders, completed.flights)
           external_flights == external'.flights.offers
           all_flights == agent_options.flights \o external_flights
       IN  /\ external' = [external EXCEPT
                  !.flights = [returned |-> TRUE, offers |-> SearchAllFlights(results)]]
           /\ flight_options' = Take(_deduplicate_flights(all_flights), TopOptions)
    /\ search' = [search EXCEPT !.flights = "returned"]
    /\ UNCHANGED <<service_vars, dedup_vars, returned, endpoint_vars, request, pc, exception, agent_options,
                   tasks, amadeus, completed, hotel_options, budget_optimization,
                   travel_plan>>

SearchHotelsReturns ==
    /\ search.hotels = "fanout"
    /\ AllSettled("hotels")
    /\ LET results == GatherResults(tasks, HotelProviders, completed.hotels)
           external_hotels == external'.hotels.offers
           all_hotels == agent_options.hotels \o external_hotels
       IN  /\ external' = [external EXCEPT
                  !.hotels = [returned |-> TRUE, offers |-> SearchAllHotels(results)]]
           /\ hotel_options' = Take(_deduplicate_hotels(all_hotels), TopOptions)
    /\ search' = [search EXCEPT !.hotels = "returned"]
    /\ UNCHANGED <<service_vars, dedup_vars, returned, endpoint_vars, request, pc, exception, agent_options,
                   tasks, amadeus, completed, flight_options, budget_optimization,
                   travel_plan>>

\* The TravelPlan of create_travel_plan, from the best combination.
TravelPlan(req, best_combination, fo, ho, recommendations) ==
    [plan_id |-> "plan_1",
     request |-> req,
     total_cost |-> best_combination.total_cost,
     budget_utilization |-> Ratio(best_combination.total_cost * 100, req.budget),
     flight_options |-> fo,
     hotel_options |-> ho,
     recommendations |-> recommendations]

\* POST /plan after the await: optimize_budget (the budget agent's
\* model call returns or raises, then _analyze_options), then
\* top_combinations[0], which raises IndexError on an empty list, then the
\* TravelPlan, which the endpoint hands to a background task to store.
AssemblePlan(budget_ok) ==
    /\ pc = "gather"
    /\ \A c \in Categories : search[c] = "returned"
    /\ IF ~budget_ok
         THEN /\ pc' = "raised"
              /\ exception' = "AgentError"
              /\ UNCHANGED <<budget_optimization, travel_plan>>
         ELSE LET opt == _analyze_options(request, flight_options, hotel_options)
              IN  /\ budget_optimization' = opt
                  /\ IF opt.top_combinations = <<>>
                       THEN /\ pc' = "raised"
                            /\ exception' = "IndexError"
                            /\ UNCHANGED travel_plan
                       ELSE /\ pc' = "returned"
                            /\ exception' = ""
                            /\ travel_plan' =
                                 TravelPlan(request, opt.top_combinations[1],
                                            flight_options, hotel_options,
                                            opt.recommendations)
    /\ store_plan' = IF pc' = "returned" THEN "scheduled" ELSE store_plan
    /\ UNCHANGED <<service_vars, dedup_vars, returned, request_data, plan_details, request,
                   fanout_vars, flight_options, hotel_options>>

\* The background task of POST /plan: store_plan commits the plan, or the
\* database fails and it rolls back.
StorePlan(db_ok) ==
    /\ store_plan = "scheduled"
    /\ store_plan' = IF db_ok THEN "committed" ELSE "rolled back"
    /\ UNCHANGED <<service_vars, dedup_vars, returned, request_data, plan_details, request, pc,
                   exception, fanout_vars, flight_options, hotel_options,
                   budget_optimization, travel_plan>>

\* The caller cancels create_travel_plan at its await: gather cancels the
\* searches, their gather cancels the provider calls, and CancelledError
\* (not an Exception) passes every except clause.
CancelRequest ==
    /\ pc = "gather"
    /\ pc' = "cancelled"
    /\ exception' = "CancelledError"
    /\ search' = [c \in Categories |->
                    IF search[c] = "returned" THEN "returned" ELSE "cancelled"]
    /\ tasks' = CancelTasks(tasks)
    /\ amadeus' = [amadeus EXCEPT !.awaiting = "", !.elapsed = 0]
    /\ UNCHANGED <<service_vars, dedup_vars, returned, endpoint_vars, request, agent_options, completed, external,
                   flight_options, hotel_options, budget_optimization, travel_plan>>

Next ==
    \/ \E data \in RequestData, ok \in BOOLEAN : CallCreateTravelPlan(data, ok)
    \/ \E ok \in BOOLEAN : SearchFlightsRuns(ok)
    \/ \E ok \in BOOLEAN : SearchHotelsRuns(ok)
    \/ Tick
    \/ AmadeusTokenArrives
    \/ \E response \in AmadeusResponses : AmadeusSearchArrives(response)
    \/ AmadeusRequestFails
    \/ AmadeusRequestTimesOut
    \/ \E p \in AllProviders : MockProviderReturns(p)
    \/ \E p \in AllProviders : ProviderRaises(p)
    \/ SearchFlightsReturns
    \/ SearchHotelsReturns
    \/ \E ok \in BOOLEAN : AssemblePlan(ok)
    \/ \E ok \in BOOLEAN : StorePlan(ok)
    \/ CancelRequest

Spec == Init /\ [][Next]_vars

-----------------------------------------------------------------------------
(* Claims about create_travel_plan (under Spec) *)

\* create_travel_plan has ended, and not because a language model call
\* raised.
Ended == pc \in {"returned", "raised"} /\ exception # "AgentError"

NoPairFits ==
    \A f \in Range(flight_options), h \in Range(hotel_options) :
        f.price + h.total_price > request.budget

\* C2: with offers in both categories of which no pair fits the budget,
\* create_travel_plan returns a plan whose budget_utilization is >= 0 and
\* whose recommendations start with the "no combinations" message and hold
\* none of the conditional ones.
C2_PlanWithoutFeasiblePair ==
    (Ended /\ flight_options # <<>> /\ hotel_options # <<>> /\ NoPairFits) =>
        /\ pc = "returned"
        /\ travel_plan # None
        /\ travel_plan.budget_utilization.num >= 0
        /\ Head(travel_plan.recommendations) = RecNoCombinations
        /\ {RecUpgrade, RecAllocate, RecLimited} \cap Range(travel_plan.recommendations) = {}

\* C3: with an empty category create_travel_plan returns a plan with that
\* category's list empty, never an error.
C3_PlanWithEmptyCategory ==
    (Ended /\ (flight_options = <<>> \/ hotel_options = <<>>)) =>
        /\ pc = "returned"
        /\ travel_plan # None
        /\ travel_plan.flight_options = flight_options
        /\ travel_plan.hotel_options = hotel_options

-----------------------------------------------------------------------------
(* Claims about search_all_providers (under Spec) *)

ProvidersOf(c) == Range(Providers[c])

\* The offers of p in the list search_all_providers returned for c.
Contribution(c, p) ==
    SelectSeq(external[c].offers, LAMBDA o : o.source = p)

\* C4: whatever subset of the provider calls raised, search_all_providers
\* returns, and its list holds every offer of every call that returned a
\* list, and nothing else.
C4_SucceededOffersMerged ==
    \A c \in Categories : external[c].returned =>
        /\ \A p \in ProvidersOf(c) :
               Range(tasks[p].result) \subseteq Range(external[c].offers)
        /\ \A k \in DOMAIN external[c].offers :
               \E p \in ProvidersOf(c) : external[c].offers[k] \in Range(tasks[p].result)
        /\ \A p \in ProvidersOf(c) : Len(Contribution(c, p)) = Len(tasks[p].result)

\* A hotel provider call raised and another returned offers, which the
\* returned list holds.
C4_Witness ==
    /\ external.hotels.returned
    /\ tasks["booking.com"].state = "raised"
    /\ tasks["expedia"].state = "returned"
    /\ tasks["airbnb"].state = "raised"
    /\ Len(external.hotels.offers) = 2

\* The diagnostic entries {providerId, errorKind} in what
\* search_all_providers returned for c.
Diagnostics(c) ==
    {k \in DOMAIN external[c].offers : "errorKind" \in DOMAIN external[c].offers[k]}

\* The provider's upstream request failed or timed out, or its call raised.
Failed(p) == tasks[p].state = "raised" \/ tasks[p].why \in {"error", "timeout"}

\* C5 as claimed: a provider whose upstream call failed or timed out has no
\* offer in the returned list and exactly one diagnostic entry.
C5_FailedProviderContributesNothing ==
    \A c \in Categories : external[c].returned =>
        \A p \in ProvidersOf(c) : Failed(p) =>
            /\ Contribution(c, p) = <<>>
            /\ Cardinality(Diagnostics(c)) >= 1

\* C5 as the code has it: a provider call that raised has no offer in the
\* returned list; an Amadeus call whose token or search request failed or
\* timed out has its two fixture offers (AA1234 and DL5678) there; and the
\* returned list holds no diagnostic entry.
C5_FailedAmadeusContributesFixture ==
    \A c \in Categories : external[c].returned =>
        /\ Diagnostics(c) = {}
        /\ \A p \in ProvidersOf(c) :
               tasks[p].state = "raised" => Contribution(c, p) = <<>>
        /\ \A p \in ProvidersOf(c) :
               tasks[p].why \in {"error", "timeout"} =>
                   /\ p = "amadeus"
                   /\ {o.flight_number : o \in Range(Contribution(c, p))}
                          = {"AA1234", "DL5678"}
                   /\ Len(Contribution(c, p)) = 2

\* The Amadeus request timed out, Skyscanner's call raised, and the flights
\* returned are the two of Amadeus's fixture.
C5_Witness ==
    /\ external.flights.returned
    /\ tasks["amadeus"].why = "timeout"
    /\ tasks["skyscanner"].state = "raised"
    /\ Len(external.flights.offers) = 2

\* The provider calls' lists one after the other in the order of the tasks
\* lists.
RegistrationOrder(c) ==
    IF c = "flights"
      THEN tasks["amadeus"].result \o tasks["skyscanner"].result
      ELSE tasks["booking.com"].result \o tasks["expedia"].result
             \o tasks["airbnb"].result

Price(c, o) == IF c = "flights" THEN o.price ELSE o.total_price

\* C6 as claimed: the list search_all_providers returns is in
\* provider-registration order.
C6_RegistrationOrder ==
    \A c \in Categories : external[c].returned =>
        external[c].offers = RegistrationOrder(c)

\* C6 as the code has it: the returned list is ascending by price, and the
\* offers of one price are in provider-registration order.
C6_PriceThenRegistrationOrder ==
    \A c \in Categories : external[c].returned =>
        LET merged == external[c].offers
        IN  /\ \A i, j \in DOMAIN merged :
                   i < j => Price(c, merged[i]) <= Price(c, merged[j])
            /\ Len(merged) = Len(RegistrationOrder(c))
            /\ \A k \in DOMAIN merged :
                   SelectSeq(merged,
                             LAMBDA o : Price(c, o) = Price(c, merged[k]))
                     = SelectSeq(RegistrationOrder(c),
                                 LAMBDA o : Price(c, o) = Price(c, merged[k]))

\* The flights returned are not in registration order: Skyscanner's 480
\* stands between Amadeus's 450 and 520 (one traveler).
C6_Witness ==
    /\ external.flights.returned
    /\ Len(external.flights.offers) = 3
    /\ external.flights.offers[2].source = "skyscanner"
    /\ external.flights.offers[3].source = "amadeus"
    /\ external.flights.offers[1].price < external.flights.offers[2].price

\* The options a search returns, from the agent's options and the provider
\* calls' lists alone.
OptionsOf(c) ==
    LET all == agent_options[c] \o
                 SortAscending(RegistrationOrder(c),
                     [i \in DOMAIN RegistrationOrder(c) |->
                         Price(c, RegistrationOrder(c)[i])])
    IN  Take(IF c = "flights" THEN _deduplicate_flights(all)
                              ELSE _deduplicate_hotels(all), TopOptions)

\* C7: the flight and hotel lists of a search, and of the plan, are
\* determined by the request, the agent's options and the provider calls'
\* lists, whatever the order in which the calls and the searches completed.
C7_ListsIndependentOfCompletionOrder ==
    /\ search.flights = "returned" => flight_options = OptionsOf("flights")
    /\ search.hotels = "returned" => hotel_options = OptionsOf("hotels")
    /\ pc = "returned" =>
           /\ travel_plan.flight_options = OptionsOf("flights")
           /\ travel_plan.hotel_options = OptionsOf("hotels")

\* A plan was returned after Skyscanner completed before Amadeus, both with
\* an offer of the same price, and the last hotel call to be created
\* completed first.
C7_Witness ==
    /\ pc = "returned"
    /\ completed.flights = << "skyscanner", "amadeus" >>
    /\ Head(completed.hotels) = "airbnb"
    /\ \E a \in Range(tasks["amadeus"].result), b \in Range(tasks["skyscanner"].result) :
           a.price = b.price

\* C8 as claimed: after a cancellation with provider calls in flight no
\* call is running, and the fan-out has returned the offers of the calls
\* completed before, the others marked cancelled.
C8_CancelledFanOutReturnsPartial ==
    \A c \in Categories :
        (pc = "cancelled" /\ \E p \in ProvidersOf(c) : tasks[p].state = "cancelled") =>
            /\ \A p \in AllProviders : tasks[p].state # "running"
            /\ external[c].returned
            /\ \A p \in ProvidersOf(c) :
                   Range(tasks[p].result) \subseteq Range(external[c].offers)

\* C8 as the code has it: after a cancellation no provider call is running
\* (each one in flight is cancelled), a fan-out that had a call in flight
\* returns nothing (the offers of its completed calls are dropped), and
\* create_travel_plan ends with CancelledError and no plan.
C8_CancelledFanOutReturnsNothing ==
    pc = "cancelled" =>
        /\ \A p \in AllProviders : tasks[p].state # "running"
        /\ \A c \in Categories :
               (\E p \in ProvidersOf(c) : tasks[p].state = "cancelled") =>
                   /\ ~external[c].returned
                   /\ external[c].offers = <<>>
                   /\ search[c] = "cancelled"
        /\ exception = "CancelledError"
        /\ travel_plan = None

\* Cancelled with Expedia's call in flight after Booking.com's had returned
\* its offers.
C8_Witness ==
    /\ pc = "cancelled"
    /\ tasks["expedia"].state = "cancelled"
    /\ tasks["booking.com"].state = "returned"
    /\ tasks["booking.com"].result # <<>>

\* C22: every plan create_travel_plan returns has 0 <= budget_utilization
\* <= 100, where total_cost is the total cost of the first of the ranked
\* combinations and budget_utilization = total_cost / budget * 100.
C22_UtilizationWithinBounds ==
    travel_plan # None =>
        /\ travel_plan.total_cost = budget_optimization.top_combinations[1].total_cost
        /\ travel_plan.budget_utilization
              = Ratio(travel_plan.total_cost * 100, request.budget)
        /\ travel_plan.budget_utilization.num >= 0
        /\ travel_plan.budget_utilization.num <= 100 * travel_plan.budget_utilization.den

\* A plan has been returned whose best combination uses part of the budget.
C22_Witness ==
    /\ pc = "returned"
    /\ travel_plan # None
    /\ travel_plan.total_cost > 0
    /\ travel_plan.total_cost < request.budget
    /\ budget_optimization.total_combinations > 1

\* C20: a body with budget <= 0 is rejected with a validation error before
\* the planner, a search or any provider is called, and no plan is
\* produced or handed to store_plan for it.
C20_NonPositiveBudgetRejected ==
    (request_data # None /\ request_data.budget <= 0) =>
        /\ pc = "rejected"
        /\ exception = "ValidationError"
        /\ request = None
        /\ plan_details = None
        /\ \A c \in Categories : search[c] = "idle"
        /\ \A p \in AllProviders : tasks[p] = Idle
        /\ amadeus.awaiting = ""
        /\ budget_optimization = None
        /\ travel_plan = None
        /\ store_plan = "idle"

\* The body of test_create_travel_plan_invalid_budget has been answered.
C20_Witness ==
    /\ pc = "rejected"
    /\ request_data # None
    /\ request_data.budget = -100
    /\ exception = "ValidationError"

-----------------------------------------------------------------------------
(* Termination of the fan-out (under LiveSpec) *)

\* A step the program takes by itself: time passes, httpx raises a timeout
\* that is due, a mock client's call (which awaits nothing) runs to its
\* return, a search goes on once its gather is done.
Progress ==
    \/ Tick
    \/ AmadeusRequestTimesOut
    \/ \E p \in AllProviders : MockProviderReturns(p)
    \/ SearchFlightsReturns
    \/ SearchHotelsReturns

\* The event loop does not stand still while such a step is possible.
\* Nothing is assumed of the upstream's answers nor of the caller.
Fairness == WF_vars(Progress)

LiveSpec == Spec /\ Fairness

\* search_all_providers awaits its gather.
FanOutWaiting(c) == search[c] = "fanout"

\* C9: no fan-out waits forever, and its wait ends by its return (or by the
\* caller's cancellation); no request of a provider is waited for longer
\* than the timeout, so that a provider that never answers ends its call
\* when the timeout is reached.
C9_FanOutEventuallyReturns ==
    /\ [](amadeus.elapsed <= timeout)
    /\ [][\A c \in Categories :
              (FanOutWaiting(c) /\ search'[c] # "fanout") =>
                  (external'[c].returned \/ pc' = "cancelled")]_vars
    /\ []<>(\A c \in Categories : ~FanOutWaiting(c))

\* The flight fan-out has returned although Amadeus never answered: its
\* token request timed out.
C9_Witness ==
    /\ external.flights.returned
    /\ tasks["amadeus"].why = "timeout"
    /\ ~amadeus.access_token


-----------------------------------------------------------------------------
(* create_travel_plan as a function of the query, the language model's    *)
(* results and the providers' answers, and two runs of it                  *)

\* What BaseAgent.execute_task may give: the model's text, or the exception
\* it raises when the call of the model fails.
ModelResults == {"raise", "advice A", "advice B"}

\* The four agents whose task create_travel_plan executes.
Agents == {"planner", "flights", "hotels", "budget"}

\* FlightBookingAgent.search_flights raises when its task does, and
\* _search_flights then returns [] without asking a provider; else the
\* agent's offers and the providers' are combined, deduplicated and cut.
_search_flights(req, result, results) ==
    IF result = "raise" THEN <<>>
    ELSE LET flight_opts == _generate_mock_flights(req)
             external_flights == SearchAllFlights(results)
             all_flights == flight_opts \o external_flights
         IN  Take(_deduplicate_flights(all_flights), TopOptions)

\* _search_hotels, likewise.
_search_hotels(req, result, results) ==
    IF result = "raise" THEN <<>>
    ELSE LET hotel_opts == _generate_mock_hotels(req)
             external_hotels == SearchAllHotels(results)
             all_hotels == hotel_opts \o external_hotels
         IN  Take(_deduplicate_hotels(all_hotels), TopOptions)

\* What a call of create_travel_plan ends with.
Outcome(exc, plan, optimization) ==
    [exception |-> exc, travel_plan |-> plan, budget_optimization |-> optimization]

\* TravelService.create_travel_plan: model[a] is what the task of agent a
\* gives, ts the outcomes of the provider calls.
create_travel_plan(req, model, ts) ==
    IF model.planner = "raise" THEN Outcome("AgentError", None, None)
    ELSE LET fo == _search_flights(req, model.flights,
                                   GatherResults(ts, FlightProviders, <<>>))
             ho == _search_hotels(req, model.hotels,
                                  GatherResults(ts, HotelProviders, <<>>))
         IN  IF model.budget = "raise" THEN Outcome("AgentError", None, None)
             ELSE LET opt == _analyze_options(req, fo, ho)
                  IN  IF opt.top_combinations = <<>>
                        THEN Outcome("IndexError", None, opt)
                        ELSE Outcome("", TravelPlan(req, opt.top_combinations[1],
                                                    fo, ho, opt.recommendations),
                                     opt)

\* The provider calls of a query, all completed: Amadeus with a response,
\* the mock clients with their fixtures.
ProviderOutcomes(req, amadeus_response) ==
    [p \in AllProviders |->
        IF p = "amadeus"
          THEN Returned(_parse_amadeus_response(amadeus_response, req), "response")
          ELSE Returned(MockOffers(p, req), "fixture")]

TwoRunsInit ==
    /\ flights = <<>> /\ unique_flights = <<>>
    /\ hotels = <<>> /\ unique_hotels = <<>>
    /\ returned = {}
    /\ request \in Requests
    /\ request_data = request
    /\ plan_details = None
    /\ store_plan = "idle"
    /\ pc = "idle"
    /\ exception = ""
    /\ search = [c \in Categories |-> "idle"]
    /\ agent_options = [c \in Categories |-> <<>>]
    /\ \E amadeus_response \in AmadeusResponses :
          tasks = ProviderOutcomes(request, amadeus_response)
    /\ amadeus = [awaiting |-> "", elapsed |-> 0, access_token |-> FALSE]
    /\ completed = [c \in Categories |-> <<>>]
    /\ external = [c \in Categories |-> [returned |-> FALSE, offers |-> <<>>]]
    /\ flight_options = <<>>
    /\ hotel_options = <<>>
    /\ budget_optimization = None
    /\ travel_plan = None
    /\ NotServing

\* One run of create_travel_plan on the query and the providers' answers,
\* with some results of the language model.
RunCreateTravelPlan(model) ==
    /\ Len(runs) < 2
    /\ runs' = Append(runs, [model |-> model,
                             outcome |-> create_travel_plan(request, model, tasks)])
    /\ UNCHANGED <<dedup_vars, returned, plan_vars, travel_plans, bookings, issued,
                   background, http_response,
                   reservations>>

TwoRunsNext == \E model \in [Agents -> ModelResults] : RunCreateTravelPlan(model)

TwoRunsSpec == TwoRunsInit /\ [][TwoRunsNext]_vars

-----------------------------------------------------------------------------
(* Claims about the language model's influence (under TwoRunsSpec) *)

\* The structured plan of a run that returned a plan: the flight list, the
\* lodging list, the combinations, the total cost and the recommendation
\* list.
StructuredPlan(outcome) ==
    [flight_options |-> outcome.travel_plan.flight_options,
     hotel_options |-> outcome.travel_plan.hotel_options,
     combinations |-> outcome.budget_optimization.top_combinations,
     total_cost |-> outcome.travel_plan.total_cost,
     recommendations |-> outcome.travel_plan.recommendations]

\* C21: two runs on the same query and the same provider responses that
\* differ only in the text the language model returned, or in whether its
\* call succeeded at all, produce the same flight list, lodging list,
\* combinations, total cost and recommendation list.
C21_ModelDoesNotInfluencePlan ==
    Len(runs) = 2 =>
        /\ (runs[1].outcome.travel_plan = None) <=> (runs[2].outcome.travel_plan = None)
        /\ runs[1].outcome.travel_plan # None =>
              StructuredPlan(runs[1].outcome) = StructuredPlan(runs[2].outcome)

\* C21, the part that holds: two runs in which every call of the model
\* returned some text produce the same outcome, whatever the texts.
C21_TextDoesNotInfluencePlan ==
    (/\ Len(runs) = 2
     /\ \A i \in 1..2, a \in Agents : runs[i].model[a] # "raise") =>
        runs[1].outcome = runs[2].outcome

\* Two runs of which one returned a plan.
C21_Witness ==
    /\ Len(runs) = 2
    /\ runs[1].model # runs[2].model
    /\ \A i \in 1..2, a \in Agents : runs[i].model[a] # "raise"
    /\ runs[1].outcome.travel_plan # None


-----------------------------------------------------------------------------
(* The service: the endpoints over the stored plans and bookings, and the   *)
(* background tasks they schedule                                           *)

\* How many plans the clients create; every uuid4 of a plan is a fresh id.
MaxCreated == 1

PlanId(n) == "plan_" \o ToString(n)

NewPlanIds == {PlanId(n) : n \in 1..MaxCreated}

\* How many background tasks wait at once.
MaxPending == 2

\* The provider responses of the plans the service assembles.
ServiceResponses ==
    { << >>, << AmadeusOffer("1", "UA", "9012", 480) >> }

\* The ids the clients ask for: a plan stored before the service started,
\* the ids of the plans created, and an id no plan ever had.
ClientPlanIds == {PlanId(0)} \cup NewPlanIds \cup {"invalid-plan-id"}

\* A table without rows.
NoRows == [id \in {} |-> None]

InsertRow(table, id, row) == [i \in DOMAIN table \cup {id} |->
                                 IF i = id THEN row ELSE table[i]]

DeleteRow(table, id) == [i \in DOMAIN table \ {id} |-> table[i]]

\* The columns store_plan fills from a plan.
TravelPlanDB(plan) ==
    [destination |-> plan.request.destination,
     start_date |-> plan.request.start_date,
     nights |-> plan.request.nights,
     budget |-> plan.request.budget,
     travelers |-> plan.request.travelers,
     total_cost |-> plan.total_cost,
     budget_utilization |-> plan.budget_utilization,
     flight_options |-> plan.flight_options,
     hotel_options |-> plan.hotel_options,
     recommendations |-> plan.recommendations]

_db_plan_to_pydantic(id, db_plan) ==
    [plan_id |-> id,
     request |-> [destination |-> db_plan.destination,
                  start_date |-> db_plan.start_date,
                  nights |-> db_plan.nights,
                  budget |-> db_plan.budget,
                  travelers |-> db_plan.travelers],
     total_cost |-> db_plan.total_cost,
     budget_utilization |-> db_plan.budget_utilization,
     flight_options |-> db_plan.flight_options,
     hotel_options |-> db_plan.hotel_options,
     recommendations |-> db_plan.recommendations]

\* TravelService.store_plan: an INSERT of the plan's row and a commit.  The
\* commit fails when the database does, or when a row with the plan's id is
\* there already (the id is the primary key); the transaction is rolled back
\* and the exception raised.
TravelService_store_plan(plans, plan, db_ok) ==
    IF db_ok /\ plan.plan_id \notin DOMAIN plans
      THEN [raised |-> FALSE,
            travel_plans |-> InsertRow(plans, plan.plan_id, TravelPlanDB(plan))]
      ELSE [raised |-> TRUE, travel_plans |-> plans]

TravelService_get_travel_plan(plans, plan_id) ==
    IF plan_id \in DOMAIN plans
      THEN _db_plan_to_pydantic(plan_id, plans[plan_id])
      ELSE None

\* TravelService.delete_travel_plan: success is rowcount > 0.
TravelService_delete_travel_plan(plans, plan_id) ==
    [success |-> plan_id \in DOMAIN plans,
     travel_plans |-> DeleteRow(plans, plan_id)]

\* What the language model gives to the agents of one create_travel_plan.
ServiceModels == {[a \in Agents |-> r] : r \in {"raise", "advice A"}}

\* A task added to the BackgroundTasks of a response.
Task(task, id, plan, details, stage) ==
    [task |-> task, id |-> id, plan |-> plan, details |-> details, stage |-> stage]

Response(op, id, status_code, body) ==
    [op |-> op, id |-> id, status_code |-> status_code, body |-> body]

\* create_travel_plan on each of the service's queries, results of the model
\* and provider responses.
AssembledPlans ==
    {[data |-> data, model |-> model, amadeus_response |-> amadeus_response,
      outcome |-> create_travel_plan(data, model,
                      ProviderOutcomes(data, amadeus_response))] :
        data \in Requests, model \in ServiceModels,
        amadeus_response \in ServiceResponses}

Assembled(data, model, amadeus_response) ==
    (CHOOSE a \in AssembledPlans :
        /\ a.data = data /\ a.model = model
        /\ a.amadeus_response = amadeus_response).outcome

\* BackgroundTasks.add_task, while there is room for the task.
add_task(t) ==
    /\ Cardinality(background \cup {t}) <= MaxPending
    /\ background' = background \cup {t}

\* POST /travel/plan
POST_plan(data, model, amadeus_response) ==
    /\ IF ~TravelPlanRequestValid(data)
         THEN /\ http_response' = Response("create_travel_plan", "", 422, None)
              /\ UNCHANGED <<issued, background>>
         ELSE LET outcome == Assembled(data, model, amadeus_response)
              IN  IF outcome.exception # ""
                    THEN /\ http_response' =
                               Response("create_travel_plan", "", 500, None)
                         /\ UNCHANGED <<issued, background>>
                    ELSE \E plan_id \in NewPlanIds \ issued :
                           LET plan == [outcome.travel_plan
                                          EXCEPT !.plan_id = plan_id]
                           IN  /\ issued' = issued \cup {plan_id}
                               /\ add_task(Task("store_plan", plan_id, plan, None, ""))
                               /\ http_response' =
                                     Response("create_travel_plan", plan_id, 200, plan)
    /\ UNCHANGED <<dedup_vars, returned, plan_vars, runs, travel_plans, bookings,
                   reservations>>

\* GET /travel/plan/{plan_id}
GET_plan(plan_id) ==
    /\ LET plan == TravelService_get_travel_plan(travel_plans, plan_id)
       IN  http_response' =
              IF plan = None
                THEN Response("get_travel_plan", plan_id, 404, None)
                ELSE Response("get_travel_plan", plan_id, 200, plan)
    /\ UNCHANGED <<dedup_vars, returned, plan_vars, runs, travel_plans, bookings,
                   issued, background, reservations>>

\* DELETE /travel/plan/{plan_id}
DELETE_plan(plan_id) ==
    /\ LET deleted == TravelService_delete_travel_plan(travel_plans, plan_id)
       IN  /\ travel_plans' = deleted.travel_plans
           /\ http_response' =
                 Response("delete_travel_plan", plan_id,
                          IF deleted.success THEN 200 ELSE 404, None)
    /\ UNCHANGED <<dedup_vars, returned, plan_vars, runs, bookings, issued,
                   background, reservations>>

\* POST /travel/plan/{plan_id}/refresh
POST_plan_refresh(plan_id) ==
    /\ LET plan == TravelService_get_travel_plan(travel_plans, plan_id)
       IN  IF plan = None
             THEN /\ http_response' =
                        Response("refresh_travel_plan", plan_id, 404, None)
                  /\ UNCHANGED background
             ELSE /\ add_task(Task("refresh_plan", plan_id, None, None, "scheduled"))
                  /\ http_response' =
                        Response("refresh_travel_plan", plan_id, 200, None)
    /\ UNCHANGED <<dedup_vars, returned, plan_vars, runs, travel_plans, bookings,
                   issued, reservations>>

\* How many bookings the clients create; every uuid4 of a booking is fresh.
MaxBooked == 1

BookingId(n) == "booking_" \o ToString(n)

NewBookingIds == {BookingId(n) : n \in 1..MaxBooked}

ClientBookingIds == {BookingId(0)} \cup NewBookingIds \cup {"invalid-booking-id"}

\* dict.get(key, default)
get(d, key, default) == IF key \in DOMAIN d THEN d[key] ELSE default

\* obj.name where obj is a dict: a dict has its keys as items, never as
\* attributes, so the access raises AttributeError.
getitem(obj, name) == [raised |-> FALSE, value |-> obj[name]]
getattr(obj, name) == [raised |-> TRUE, value |-> "AttributeError"]

\* FlightAgent.book_flight: result is what the task of the agent gives.
book_flight(flight_id, traveler_details, result) ==
    IF result = "raise"
      THEN [raised |-> TRUE, value |-> "AgentError"]
      ELSE [raised |-> FALSE,
            value |-> [booking_id |-> "FLT_" \o flight_id,
                       status |-> "confirmed",
                       seat_assignments |->
                           IF get(traveler_details, "travelers", 1) > 1
                             THEN <<"12A", "12B">> ELSE <<"12A">>,
                       booking_details |-> result]]

\* HotelAgent.book_hotel
book_hotel(hotel_id, traveler_details, check_in, check_out, result) ==
    IF result = "raise"
      THEN [raised |-> TRUE, value |-> "AgentError"]
      ELSE [raised |-> FALSE,
            value |-> [booking_id |-> "HTL_" \o hotel_id,
                       status |-> "confirmed",
                       room_type |-> "Standard Double Room",
                       booking_details |-> result]]

\* BookingService._get_travel_plan: the row as a dict.
BookingService_get_travel_plan(plans, plan_id) ==
    IF plan_id \in DOMAIN plans
      THEN [id |-> plan_id,
            destination |-> plans[plan_id].destination,
            start_date |-> plans[plan_id].start_date,
            end_date |-> plans[plan_id].nights,
            flight_options |-> plans[plan_id].flight_options,
            hotel_options |-> plans[plan_id].hotel_options,
            request |-> [start_date |-> plans[plan_id].start_date,
                         end_date |-> plans[plan_id].nights]]
      ELSE None

\* An option whatever the id: the first one.
_first_option(options, id) ==
    IF options = <<>> THEN None ELSE options[1]

\* BookingService._find_flight_option and _find_hotel_option: the first
\* option with the id, or None.
_find_option(options, id) ==
    LET found == {i \in DOMAIN options : options[i].id = id}
    IN  IF found = {} THEN None
        ELSE options[CHOOSE i \in found : \A j \in found : i <= j]

\* The row _store_booking adds for a confirmation.
BookingModel(booking, booking_request) ==
    [plan_id |-> booking.plan_id,
     selected_flight_id |-> booking_request.selected_flight_id,
     selected_hotel_id |-> booking_request.selected_hotel_id,
     traveler_details |-> booking_request.traveler_details,
     payment_details |-> booking_request.payment_details,
     total_cost |-> booking.total_cost,
     status |-> booking.status]

_db_booking_to_pydantic(id, db_booking) ==
    [booking_id |-> id,
     plan_id |-> db_booking.plan_id,
     total_cost |-> db_booking.total_cost,
     status |-> db_booking.status]

\* What create_booking ends in: the exception or the confirmation, the
\* reservations the agents made on the way and the table of bookings.
Booked(exc, confirmation, reserved, rows) ==
    [exception |-> exc, confirmation |-> confirmation,
     reserved |-> reserved, bookings |-> rows]

\* BookingService.create_booking: id is the uuid4, results what the
\* tasks of the two agents give.
BookingService_create_booking(plans, rows, booking_request, id, results) ==
    LET plan == BookingService_get_travel_plan(plans, booking_request.plan_id)
    IN
    IF plan = None
      THEN Booked("ValueError: Travel plan not found", None, {}, rows)
    ELSE
    LET selected_flight == _find_option(plan.flight_options,
                                        booking_request.selected_flight_id)
        selected_hotel == _find_option(plan.hotel_options,
                                       booking_request.selected_hotel_id)
    IN
    IF selected_flight = None
      THEN Booked("ValueError: Flight option not found", None, {}, rows)
    ELSE IF selected_hotel = None
      THEN Booked("ValueError: Hotel option not found", None, {}, rows)
    ELSE
    \* The arguments of _book_hotel are evaluated before either coroutine runs
    LET plan_request == getattr(plan, "request")
    IN
    IF plan_request.raised
      THEN Booked(plan_request.value, None, {}, rows)
    ELSE
    LET flight_booking == book_flight(selected_flight.id,
                                      booking_request.traveler_details, results.flights)
        hotel_booking == book_hotel(selected_hotel.id, booking_request.traveler_details,
                                    plan_request.value.start_date,
                                    plan_request.value.end_date, results.hotels)
        reserved == {b.value.booking_id :
                        b \in {b \in {flight_booking, hotel_booking} : ~b.raised}}
        price == getattr(selected_flight, "price")
        total_price == getattr(selected_hotel, "total_price")
    IN
    IF flight_booking.raised \/ hotel_booking.raised
      THEN Booked("AgentError", None, reserved, rows)
    ELSE IF price.raised \/ total_price.raised
      THEN Booked("AttributeError", None, reserved, rows)
    ELSE
    LET confirmation ==
            [booking_id |-> id,
             plan_id |-> booking_request.plan_id,
             flight_booking |-> flight_booking.value,
             hotel_booking |-> hotel_booking.value,
             total_cost |-> price.value + total_price.value,
             status |-> "confirmed"]
    IN  Booked("", confirmation, reserved,
               InsertRow(rows, id, BookingModel(confirmation, booking_request)))

BookingService_get_booking(rows, booking_id) ==
    IF booking_id \in DOMAIN rows
      THEN _db_booking_to_pydantic(booking_id, rows[booking_id])
      ELSE None

BookingService_cancel_booking(rows, booking_id) ==
    IF booking_id \in DOMAIN rows
      THEN [rows EXCEPT ![booking_id].status = "cancelled"]
      ELSE rows

\* BookingService.modify_booking: the traveler details are replaced; the
\* special requests are put into the loaded itinerary only.
BookingService_modify_booking(rows, booking_id, modifications) ==
    IF booking_id \in DOMAIN rows /\ "traveler_details" \in DOMAIN modifications
      THEN [rows EXCEPT ![booking_id].traveler_details =
                            modifications.traveler_details]
      ELSE rows

BookingService_process_payment(rows, booking_id, payment_details) ==
    IF booking_id \in DOMAIN rows
      THEN [rows EXCEPT ![booking_id].status = "paid"]
      ELSE rows

PaymentDetails == {None, [card_number |-> "4111111111111111"]}

BookingRequests ==
    [plan_id : ClientPlanIds,
     selected_flight_id : {"flight_1", "invalid-flight-id"},
     selected_hotel_id : {"hotel_1", "invalid-hotel-id"},
     traveler_details : {[primary_traveler |-> "John Doe",
                          additional_travelers |-> <<>>]},
     payment_details : PaymentDetails]

Modifications ==
    { [traveler_details |-> [primary_traveler |-> "Jane Doe",
                             additional_travelers |-> <<>>]],
      [special_requests |-> "Late check-in"] }

\* POST /booking/book
POST_book(booking_request, results) ==
    /\ \E booking_id \in NewBookingIds :
         LET booked == BookingService_create_booking(travel_plans, bookings,
                                                     booking_request, booking_id,
                                                     results)
         IN  /\ booked.exception = "" => booking_id \notin issued
             /\ bookings' = booked.bookings
             /\ reservations' = reservations \cup booked.reserved
             /\ IF booked.exception # ""
                  THEN /\ http_response' =
                             Response("create_booking", "", 500,
                                      [detail |-> booked.exception])
                       /\ UNCHANGED <<issued, background>>
                  ELSE /\ issued' = issued \cup {booking_id}
                       /\ IF booking_request.payment_details # None
                            THEN add_task(Task("process_payment", booking_id, None,
                                               booking_request.payment_details, ""))
                            ELSE UNCHANGED background
                       /\ http_response' =
                             Response("create_booking", booking_id, 200,
                                      booked.confirmation)
    /\ UNCHANGED <<dedup_vars, returned, plan_vars, runs, travel_plans>>

\* GET /booking/booking/{booking_id}
GET_booking(booking_id) ==
    /\ LET booking == BookingService_get_booking(bookings, booking_id)
       IN  http_response' =
              IF booking = None
                THEN Response("get_booking", booking_id, 404, None)
                ELSE Response("get_booking", booking_id, 200, booking)
    /\ UNCHANGED <<dedup_vars, returned, plan_vars, runs, travel_plans, bookings,
                   issued, background, reservations>>

\* POST /booking/booking/{booking_id}/cancel
POST_booking_cancel(booking_id) ==
    /\ IF BookingService_get_booking(bookings, booking_id) = None
         THEN /\ http_response' = Response("cancel_booking", booking_id, 404, None)
              /\ UNCHANGED background
         ELSE /\ add_task(Task("cancel_booking", booking_id, None, None, ""))
              /\ http_response' = Response("cancel_booking", booking_id, 200, None)
    /\ UNCHANGED <<dedup_vars, returned, plan_vars, runs, travel_plans, bookings,
                   issued, reservations>>

\* POST /booking/booking/{booking_id}/modify
POST_booking_modify(booking_id, modifications) ==
    /\ IF BookingService_get_booking(bookings, booking_id) = None
         THEN /\ http_response' = Response("modify_booking", booking_id, 404, None)
              /\ UNCHANGED background
         ELSE /\ add_task(Task("modify_booking", booking_id, None, modifications, ""))
              /\ http_response' = Response("modify_booking", booking_id, 200, None)
    /\ UNCHANGED <<dedup_vars, returned, plan_vars, runs, travel_plans, bookings,
                   issued, reservations>>

\* TravelService.refresh_plan up to its await of create_travel_plan: the
\* plan is read; a plan that is not stored ends the task.
refresh_plan_read(t) ==
    LET plan == TravelService_get_travel_plan(travel_plans, t.id)
    IN  IF plan = None THEN {}
        ELSE {Task("refresh_plan", t.id, plan, None, "creating")}

\* TravelService.refresh_plan from the return of create_travel_plan: the new
\* plan takes the id and goes to store_plan.
refresh_plan_store(t, model, amadeus_response, db_ok) ==
    LET outcome == Assembled(t.plan.request, model, amadeus_response)
    IN  IF outcome.exception # "" THEN travel_plans
        ELSE TravelService_store_plan(travel_plans,
                 [outcome.travel_plan EXCEPT !.plan_id = t.id],
                 db_ok).travel_plans

\* A background task runs, or a refresh runs up to its await.
RunBackgroundTask(t, model, amadeus_response, db_ok) ==
    /\ t \in background
    /\ background' = (background \ {t}) \cup
          (IF t.task = "refresh_plan" /\ t.stage = "scheduled"
             THEN refresh_plan_read(t) ELSE {})
    /\ travel_plans' =
          CASE t.task = "store_plan" ->
                 TravelService_store_plan(travel_plans, t.plan, db_ok).travel_plans
            [] t.task = "refresh_plan" /\ t.stage = "creating" ->
                 refresh_plan_store(t, model, amadeus_response, db_ok)
            [] OTHER -> travel_plans
    /\ bookings' =
          CASE t.task = "cancel_booking" ->
                 BookingService_cancel_booking(bookings, t.id)
            [] t.task = "modify_booking" ->
                 BookingService_modify_booking(bookings, t.id, t.details)
            [] t.task = "process_payment" ->
                 BookingService_process_payment(bookings, t.id, t.details)
            [] OTHER -> bookings
    /\ UNCHANGED <<dedup_vars, returned, plan_vars, runs, issued, http_response,
                   reservations>>

\* The plan and the booking that may be in the database when the service
\* starts: the database file outlives the process.
StoredRequest ==
    [destination |-> "Downtown", start_date |-> "2024-07-01",
     nights |-> 7, budget |-> 3000, travelers |-> 1]

StoredPlan ==
    [create_travel_plan(StoredRequest, [a \in Agents |-> "advice A"],
                        ProviderOutcomes(StoredRequest, <<>>)).travel_plan
        EXCEPT !.plan_id = PlanId(0)]

StoredBooking(status) ==
    [plan_id |-> PlanId(0),
     selected_flight_id |-> StoredPlan.flight_options[1].id,
     selected_hotel_id |-> StoredPlan.hotel_options[1].id,
     traveler_details |-> [primary_traveler |-> "John Doe",
                           additional_travelers |-> <<>>],
     payment_details |-> None,
     total_cost |-> StoredPlan.flight_options[1].price
                      + StoredPlan.hotel_options[1].total_price,
     status |-> status]

ServiceInit ==
    /\ flights = <<>> /\ unique_flights = <<>>
    /\ hotels = <<>> /\ unique_hotels = <<>>
    /\ returned = {}
    /\ request = None
    /\ flight_options = <<>>
    /\ hotel_options = <<>>
    /\ budget_optimization = None
    /\ NotPlanning
    /\ runs = <<>>
    /\ \/ travel_plans = NoRows /\ bookings = NoRows
       \/ /\ travel_plans = InsertRow(NoRows, PlanId(0), TravelPlanDB(StoredPlan))
          /\ \/ bookings = NoRows
             \/ \E status \in {"confirmed", "paid"} :
                   bookings = InsertRow(NoRows, BookingId(0), StoredBooking(status))
    /\ issued = {}
    /\ background = {}
    /\ http_response = NoResponse
    /\ reservations = {}

\* The background tasks wait to be run by the event loop, in any order.
BackgroundTasks ==
    \E t \in background, model \in ServiceModels,
       amadeus_response \in ServiceResponses, db_ok \in BOOLEAN :
         RunBackgroundTask(t, model, amadeus_response, db_ok)

\* The endpoints of the plans, with the plan that may be stored at the
\* start and no bookings.
PlansInit == ServiceInit /\ bookings = NoRows

PlansNext ==
    \/ \E data \in RequestData, model \in ServiceModels,
          amadeus_response \in ServiceResponses :
            POST_plan(data, model, amadeus_response)
    \/ \E plan_id \in ClientPlanIds : GET_plan(plan_id)
    \/ \E plan_id \in ClientPlanIds : DELETE_plan(plan_id)
    \/ \E plan_id \in ClientPlanIds : POST_plan_refresh(plan_id)
    \/ BackgroundTasks

PlansSpec == PlansInit /\ [][PlansNext]_vars

\* The endpoints of the bookings and the deletion of plans, over the plan
\* and the booking that may be stored at the start.
BookingsInit == ServiceInit

BookingsNext ==
    \/ \E booking_request \in BookingRequests,
          results \in [Categories -> {"advice A"}] :
            POST_book(booking_request, results)
    \/ \E booking_id \in ClientBookingIds : GET_booking(booking_id)
    \/ \E booking_id \in ClientBookingIds : POST_booking_cancel(booking_id)
    \/ \E booking_id \in ClientBookingIds, modifications \in Modifications :
          POST_booking_modify(booking_id, modifications)
    \/ \E plan_id \in ClientPlanIds : DELETE_plan(plan_id)
    \/ BackgroundTasks

BookingsSpec == BookingsInit /\ [][BookingsNext]_vars


-----------------------------------------------------------------------------
(* Claims about the stored plans (under PlansSpec) *)

\* The store_plan tasks that wait for the plan with the id.
StorePlanPending(plan_id) ==
    {t \in background : t.task = "store_plan" /\ t.id = plan_id}

\* The plan create-plan returned under the id, while its store_plan task
\* waits, and the stored plan after that.
CreatedPlan(plan_id) ==
    IF StorePlanPending(plan_id) # {}
      THEN (CHOOSE t \in StorePlanPending(plan_id) : TRUE).plan
      ELSE TravelService_get_travel_plan(travel_plans, plan_id)

\* C23: once a create-plan request has returned a plan, a later
\* get_travel_plan with that plan_id finds it, with the same plan_id and the
\* same request, although the plan is stored by a background task.  (Stated
\* for the plans whose store_plan task still waits or whose row is stored,
\* which leaves out the plans somebody deleted.)
C23_CreatedPlanIsFound ==
    [][\A plan_id \in NewPlanIds :
          (/\ GET_plan(plan_id)
           /\ StorePlanPending(plan_id) # {} \/ plan_id \in DOMAIN travel_plans) =>
              /\ http_response'.status_code = 200
              /\ http_response'.body.plan_id = plan_id
              /\ http_response'.body.request = CreatedPlan(plan_id).request]_vars

\* create-plan has returned a plan that get_travel_plan does not find.
C23_Witness ==
    /\ http_response.op = "get_travel_plan"
    /\ http_response.status_code = 404
    /\ StorePlanPending(http_response.id) # {}


\* delete_travel_plan has just answered that it deleted the plan.
DeleteSucceeded(plan_id) ==
    /\ http_response.op = "delete_travel_plan"
    /\ http_response.id = plan_id
    /\ http_response.status_code = 200

\* C24: after delete_travel_plan(id) has succeeded, get_travel_plan(id)
\* reports the plan as not found.  (Stated for the time from the answer of
\* the delete to the next call of an endpoint: what get_travel_plan would
\* give then.)
C24_DeletedPlanStaysNotFound ==
    \A plan_id \in ClientPlanIds :
        DeleteSucceeded(plan_id) =>
            TravelService_get_travel_plan(travel_plans, plan_id) = None

\* C24, the parts that hold: a delete of a stored plan succeeds and takes
\* the row, and only that row, out of the table; a delete of an id that is
\* not stored (a second delete of the same id is one) reports not found and
\* leaves the stored plans as they were; a get of an id that is not stored
\* reports not found.
C24_DeleteTakesRowOut ==
    [][\A plan_id \in ClientPlanIds :
          /\ (DELETE_plan(plan_id) /\ plan_id \in DOMAIN travel_plans) =>
                /\ http_response'.status_code = 200
                /\ travel_plans' = DeleteRow(travel_plans, plan_id)
                /\ plan_id \notin DOMAIN travel_plans'
          /\ (DELETE_plan(plan_id) /\ plan_id \notin DOMAIN travel_plans) =>
                /\ http_response'.status_code = 404
                /\ travel_plans' = travel_plans
          /\ (GET_plan(plan_id) /\ plan_id \notin DOMAIN travel_plans) =>
                http_response'.status_code = 404]_vars

\* A plan was deleted and is stored again.
C24_Witness ==
    \E plan_id \in ClientPlanIds :
        /\ DeleteSucceeded(plan_id)
        /\ \E t \in background :
              t.task = "refresh_plan" /\ t.id = plan_id /\ t.stage = "creating"


\* The refresh task t ends with this step: it was inside create_travel_plan,
\* which now returns with the model's results and the provider response.
RefreshCompletes(t, model, amadeus_response, db_ok) ==
    /\ t.task = "refresh_plan" /\ t.stage = "creating"
    /\ RunBackgroundTask(t, model, amadeus_response, db_ok)

\* The plan the refresh task assembled, under the id of the refreshed plan.
RefreshedPlan(t, model, amadeus_response) ==
    [Assembled(t.plan.request, model, amadeus_response).travel_plan
        EXCEPT !.plan_id = t.id]

\* C28: after refresh_plan(id) has completed for a stored plan, the store
\* holds exactly one plan with that id, and its contents are those of the
\* newly assembled plan: the old record is replaced, the id kept.  A refresh
\* of an id that is not stored changes nothing.
C28_RefreshReplacesPlan ==
    [][\A t \in background, model \in ServiceModels,
          amadeus_response \in ServiceResponses :
          (/\ RefreshCompletes(t, model, amadeus_response, TRUE)
           /\ Assembled(t.plan.request, model, amadeus_response).exception = "") =>
              IF t.id \in DOMAIN travel_plans
                THEN travel_plans' =
                        [travel_plans EXCEPT ![t.id] =
                            TravelPlanDB(RefreshedPlan(t, model, amadeus_response))]
                ELSE travel_plans' = travel_plans]_vars

\* C28, what holds instead: a refresh that completes while the plan is
\* stored leaves the table as it was, the old record included; a refresh
\* that completes after the plan was deleted stores the new plan under the
\* id; a refresh that starts for an id that is not stored ends at once.
C28_RefreshLeavesStoredPlan ==
    [][\A t \in background, model \in ServiceModels,
          amadeus_response \in ServiceResponses, db_ok \in BOOLEAN :
          /\ (/\ RefreshCompletes(t, model, amadeus_response, db_ok)
              /\ t.id \in DOMAIN travel_plans) =>
                 travel_plans' = travel_plans
          /\ (/\ RefreshCompletes(t, model, amadeus_response, db_ok)
              /\ t.id \notin DOMAIN travel_plans
              /\ travel_plans' # travel_plans) =>
                 /\ db_ok
                 /\ travel_plans' =
                       InsertRow(travel_plans, t.id,
                           TravelPlanDB(RefreshedPlan(t, model, amadeus_response)))
          /\ (/\ t.task = "refresh_plan" /\ t.stage = "scheduled"
              /\ RunBackgroundTask(t, model, amadeus_response, db_ok)
              /\ t.id \notin DOMAIN travel_plans) =>
                 /\ travel_plans' = travel_plans
                 /\ background' = background \ {t}]_vars

\* A refresh has assembled a plan unlike the stored one and the plan is
\* still stored.
C28_Witness ==
    \E t \in background :
        /\ t.task = "refresh_plan" /\ t.stage = "creating"
        /\ t.id \in DOMAIN travel_plans
        /\ \E model \in ServiceModels, amadeus_response \in ServiceResponses :
              /\ Assembled(t.plan.request, model, amadeus_response).exception = ""
              /\ TravelPlanDB(RefreshedPlan(t, model, amadeus_response))
                    # travel_plans[t.id]

-----------------------------------------------------------------------------
(* Claims about the bookings (under BookingsSpec) *)

\* The plan of the booking request is stored and the selected flight and
\* hotel are among its options.
Bookable(booking_request) ==
    /\ booking_request.plan_id \in DOMAIN travel_plans
    /\ \E i \in DOMAIN travel_plans[booking_request.plan_id].flight_options :
          travel_plans[booking_request.plan_id].flight_options[i].id
              = booking_request.selected_flight_id
    /\ \E i \in DOMAIN travel_plans[booking_request.plan_id].hotel_options :
          travel_plans[booking_request.plan_id].hotel_options[i].id
              = booking_request.selected_hotel_id

\* C25: for a stored plan and a flight id and a hotel id among its options,
\* create_booking succeeds: it returns and stores a booking with the plan_id
\* of the request, status 'confirmed' and a total cost that is the flight's
\* price plus the hotel's total price and more than zero, and get_booking
\* finds the booking under its booking_id.
C25_BookingOfStoredPlanSucceeds ==
    [][\A booking_request \in BookingRequests,
          results \in [Categories -> {"advice A"}] :
          (POST_book(booking_request, results) /\ Bookable(booking_request)) =>
              /\ http_response'.status_code = 200
              /\ http_response'.body.plan_id = booking_request.plan_id
              /\ http_response'.body.status = "confirmed"
              /\ http_response'.body.total_cost > 0
              /\ http_response'.body.total_cost =
                    _find_option(travel_plans[booking_request.plan_id].flight_options,
                                 booking_request.selected_flight_id).price
                    + _find_option(travel_plans[booking_request.plan_id].hotel_options,
                                   booking_request.selected_hotel_id).total_price
              /\ BookingService_get_booking(bookings', http_response'.id)
                    = _db_booking_to_pydantic(http_response'.id,
                          BookingModel(http_response'.body, booking_request))]_vars

\* create_booking has ended in the AttributeError.
C25_Witness ==
    /\ http_response.op = "create_booking"
    /\ http_response.status_code = 500
    /\ http_response.body = [detail |-> "AttributeError"]


\* create_booking ends in the error and nothing else happens: no booking is
\* stored, no reservation made, no payment scheduled.
Rejected(detail) ==
    /\ http_response' = Response("create_booking", "", 500, [detail |-> detail])
    /\ bookings' = bookings
    /\ reservations' = reservations
    /\ background' = background

HasOption(options, id) == \E i \in DOMAIN options : options[i].id = id

\* C26: create_booking with a plan_id that is not stored, or with a flight
\* id or a hotel id that is not among the options of the stored plan, ends
\* in an error (the ValueError that names what was not found), books neither
\* the flight nor the hotel and leaves the stored bookings unchanged.
C26_UnknownIdsAreRejected ==
    [][\A booking_request \in BookingRequests,
          results \in [Categories -> {"advice A"}] :
          POST_book(booking_request, results) =>
              /\ booking_request.plan_id \notin DOMAIN travel_plans =>
                    Rejected("ValueError: Travel plan not found")
              /\ (/\ booking_request.plan_id \in DOMAIN travel_plans
                  /\ ~HasOption(travel_plans[booking_request.plan_id].flight_options,
                                booking_request.selected_flight_id)) =>
                    Rejected("ValueError: Flight option not found")
              /\ (/\ booking_request.plan_id \in DOMAIN travel_plans
                  /\ HasOption(travel_plans[booking_request.plan_id].flight_options,
                               booking_request.selected_flight_id)
                  /\ ~HasOption(travel_plans[booking_request.plan_id].hotel_options,
                                booking_request.selected_hotel_id)) =>
                    Rejected("ValueError: Hotel option not found")]_vars

\* A booking of a stored plan was rejected for its hotel id, with bookings
\* stored.
C26_Witness ==
    /\ http_response.op = "create_booking"
    /\ http_response.body = [detail |-> "ValueError: Hotel option not found"]
    /\ DOMAIN travel_plans # {}
    /\ DOMAIN bookings # {}


\* C29: a booking whose status is 'cancelled' stays cancelled: no later
\* operation, the process_payment task scheduled at its creation included,
\* changes the status or removes the booking, whatever the order in which
\* the endpoints are called and the background tasks run.
C29_CancelledStaysCancelled ==
    [][\A booking_id \in DOMAIN bookings :
          bookings[booking_id].status = "cancelled" =>
              /\ booking_id \in DOMAIN bookings'
              /\ bookings'[booking_id].status = "cancelled"]_vars

\* A cancelled booking was modified and read after its cancellation, and
\* another cancellation of it waits.
C29_Witness ==
    /\ http_response.op = "get_booking"
    /\ http_response.status_code = 200
    /\ http_response.body.status = "cancelled"
    /\ bookings[http_response.id].traveler_details.primary_traveler = "Jane Doe"
    /\ \E t \in background : t.task = "cancel_booking" /\ t.id = http_response.id

\* C30: the plan_id of every stored booking is the id of a plan that is
\* stored: deleting a plan never leaves a booking that refers to it.
C30_BookingsReferToStoredPlans ==
    \A booking_id \in DOMAIN bookings :
        bookings[booking_id].plan_id \in DOMAIN travel_plans

\* A stored booking and its stored plan.
C30_Witness ==
    /\ DOMAIN bookings # {}
    /\ C30_BookingsReferToStoredPlans
    /\ http_response.op = "delete_travel_plan"

-----------------------------------------------------------------------------
(* FlightAgent.book_flight on its own *)

\* How many travelers accompany the primary traveler.
MaxAdditional == 3

\* Traveler details as the booking requests give them, and with a count
\* under the key "travelers".
BookFlightTravelerDetails ==
    LET named == {[primary_traveler |-> "Frank Miller",
                   additional_travelers |-> List([i \in 1..n |-> "traveler"])] :
                     n \in 0..MaxAdditional}
    IN  named \cup
        {[primary_traveler |-> d.primary_traveler,
          additional_travelers |-> d.additional_travelers,
          travelers |-> k] : d \in named, k \in 1..(MaxAdditional + 1)}

BookFlightInit ==
    /\ flights = <<>> /\ unique_flights = <<>>
    /\ hotels = <<>> /\ unique_hotels = <<>>
    /\ returned = {}
    /\ request = None
    /\ flight_options = <<>>
    /\ hotel_options = <<>>
    /\ budget_optimization = None
    /\ NotPlanning
    /\ NotServing

\* One call of book_flight; runs holds the call and what it gave.
Call_book_flight(flight_id, traveler_details, result) ==
    /\ runs' = << [flight_id |-> flight_id,
                   traveler_details |-> traveler_details,
                   outcome |-> book_flight(flight_id, traveler_details, result)] >>
    /\ UNCHANGED <<dedup_vars, returned, plan_vars, travel_plans, bookings, issued,
                   background, http_response, reservations>>

BookFlightNext ==
    \E flight_id \in {"flight_1", "amadeus_1"},
       traveler_details \in BookFlightTravelerDetails,
       result \in ModelResults :
         Call_book_flight(flight_id, traveler_details, result)

BookFlightSpec == BookFlightInit /\ [][BookFlightNext]_vars

\* C27: a flight booking confirmation carries one seat assignment per
\* traveler: with n additional travelers next to the primary traveler it
\* has n + 1 seat assignments.
C27_OneSeatPerTraveler ==
    \A i \in DOMAIN runs :
        ~runs[i].outcome.raised =>
            Len(runs[i].outcome.value.seat_assignments)
                = Len(runs[i].traveler_details.additional_travelers) + 1

\* C27, what holds instead: one seat, or two when the details carry a count
\* of more than one under "travelers".
C27_OneOrTwoSeats ==
    \A i \in DOMAIN runs :
        ~runs[i].outcome.raised =>
            runs[i].outcome.value.seat_assignments =
                IF "travelers" \in DOMAIN runs[i].traveler_details
                   /\ runs[i].traveler_details.travelers > 1
                  THEN <<"12A", "12B">> ELSE <<"12A">>

=============================================================================
